---- MODULE Spec2Model ----
(***************************************************************************)
(* A model of xage-bot-js (src/unnamed/part_000, the three-mode version    *)
(* of the bot; src/index.js is the older two-mode version of the same      *)
(* file).  The model covers the transport classification (requestJson),    *)
(* the interruptible delay (sleepRandom), the credential guard             *)
(* (ensureValidCookieForAccount / refreshCookieForAccount), the task       *)
(* runner, the token-pair runner and the lootbox runner.                   *)
(*                                                                         *)
(* Conventions.  A JavaScript string is a sequence of one-character        *)
(* strings where the code looks inside it (trim), and a sequence of        *)
(* tokens where it is a response body.  Every await of the program is the  *)
(* end of one action; the synchronous code up to the next await belongs    *)
(* to the same action.  Variables and operators marked "obs" record what   *)
(* happened (calls made, waits performed); no guard of the program reads   *)
(* them.                                                                   *)
(***************************************************************************)
EXTENDS Integers, Sequences, FiniteSets, TLC

VARIABLES
    response,   \* transport harness: the HTTP response handed to requestJson
    outcome,    \* transport harness: what requestJson made of it
    disk,       \* the content of config.json (CONFIG_PATH)
    tmp,        \* the content of config.json.tmp (tmpPath of atomicWriteJson)
    cfg,        \* main's cfg: [accounts |-> sequence of [cookie |-> string]]
    pc,         \* what the program is awaiting, or the return site it is at
    mode,       \* main's mode: "" before the menu is answered
    ai,         \* the account index i of the loop in main / runTradeXAllAccountsForever
    g,          \* the frame of the running credential-guard call
    gres,       \* how the last credential-guard call ended, at its return site
    rt,         \* runTasksForAccount's locals
    tx,         \* the token-pair runner's locals
    lb,         \* runLootboxForAccount's locals
    sig,        \* state.stopRequested, forceQuit and whether the handler is on
    sl,         \* sleepRandom's frame
    accepted,   \* obs: accepted[i], who stored the cookie of account i and how checked
    op,         \* obs: the invocations of the current retry-wrapped operation
    run,        \* obs: the current account run of the task runner
    lastCall,   \* obs: the credential-guard call before the one in gres
    seen        \* obs: the last remote answer, the earlier accounts, the file before a save

vars == <<response, outcome, tmp, lb, mode, seen, disk, cfg, pc, ai, g, gres, rt, tx,
          sig, sl, accepted, op, run, lastCall>>

-----------------------------------------------------------------------------
(* Program constants.                                                      *)

RATE_LIMIT_MAX_RETRY == 3
RATE_LIMIT_FALLBACK_WAIT_MS == 8000
AUTH_MAX_RETRY == 3

-----------------------------------------------------------------------------
(* Strings.                                                                *)

RECURSIVE TrimLeft(_)
TrimLeft(s) ==
    IF s # <<>> /\ Head(s) = " " THEN TrimLeft(Tail(s)) ELSE s

RECURSIVE TrimRight(_)
TrimRight(s) ==
    IF s # <<>> /\ s[Len(s)] = " " THEN TrimRight(SubSeq(s, 1, Len(s) - 1)) ELSE s

\* String.prototype.trim
trim(s) == TrimRight(TrimLeft(s))

Max(a, b) == IF a >= b THEN a ELSE b
Min(a, b) == IF a <= b THEN a ELSE b

-----------------------------------------------------------------------------
(* Transport: requestJson and its helpers.                                 *)
(*                                                                         *)
(* A response is [status, retryAfter, text].  text is the body as a        *)
(* sequence of tokens.  The JSON texts of the model are <<>> (no body),    *)
(* <<"null">> and flat objects <<"{", key, value, ..., "}">>; any other    *)
(* token sequence makes JSON.parse throw.  A value token stands for a      *)
(* JSON value: "true", "false", "null", a string, or an opaque compound    *)
(* ("{user}", "[tasks]", "{token}", "{prize}", "{wonUsdt}").               *)

Undefined == "undefined"

Keys == {"message", "error", "detail", "success", "user", "tasks", "token", "balance",
         "prize", "meta"}

Punct == {"{", "}"}

\* Values that are falsy in JavaScript: undefined, "", false, null, 0.
Falsy == {Undefined, "", "false", "null", "0"}

Truthy(v) == v \notin Falsy

\* Tokens in which /unauth|unauthoriz|forbidden|expired|cookie|login|session/i
\* finds a match, among the tokens the model's bodies are made of.
AuthTokens == {"Session expired", "Unauthorized", "please login", "Forbidden",
               "invalid cookie"}

\* /unauth|.../i.test(msg), msg a sequence of tokens
AuthPatternTest(msg) == \E j \in DOMAIN msg : msg[j] \in AuthTokens

JsonNull == [isNull |-> TRUE, at |-> [k \in Keys |-> Undefined]]

\* JSON.parse accepts the text
IsJsonText(text) ==
    \/ text = <<"null">>
    \/ /\ Len(text) >= 2
       /\ text[1] = "{"
       /\ text[Len(text)] = "}"
       /\ Len(text) % 2 = 0
       /\ \A j \in 1..((Len(text) - 2) \div 2) :
             /\ text[2 * j] \in Keys
             /\ text[2 * j + 1] \notin Punct

\* the value of key k in an object text: the last occurrence wins
MemberOf(text, k) ==
    LET js == {j \in 1..((Len(text) - 2) \div 2) : text[2 * j] = k}
    IN  IF js = {} THEN Undefined
        ELSE text[2 * (CHOOSE j \in js : \A i \in js : i <= j) + 1]

\* JSON.parse(text): [threw, json]
JSONparse(text) ==
    IF ~IsJsonText(text) THEN [threw |-> TRUE, json |-> JsonNull]
    ELSE IF text = <<"null">> THEN [threw |-> FALSE, json |-> JsonNull]
    ELSE [threw |-> FALSE,
          json |-> [isNull |-> FALSE, at |-> [k \in Keys |-> MemberOf(text, k)]]]

\* The Retry-After header: absent (headers.get gives null), the empty string,
\* a number of seconds, an HTTP date (ms is the date minus Date.now()), or
\* anything else.
RetryAfterValues ==
    {[k |-> "absent", n |-> 0], [k |-> "empty", n |-> 0], [k |-> "junk", n |-> 0],
     [k |-> "secs", n |-> 0], [k |-> "secs", n |-> 2], [k |-> "secs", n |-> 30],
     [k |-> "date", n |-> 2000], [k |-> "date", n |-> 0 - 500]}

NoWait == 0 - 1

\* parseRetryAfterMs; NoWait stands for null
parseRetryAfterMs(retryAfterValue) ==
    IF retryAfterValue.k \in {"absent", "empty"} THEN NoWait
    ELSE IF retryAfterValue.k = "secs" THEN Max(1000, retryAfterValue.n * 1000)
    ELSE IF retryAfterValue.k = "date" THEN Max(1000, retryAfterValue.n)
    ELSE NoWait

\* A mutant: the status test is dropped, only the text heuristic is left.
looksLikeAuthProblem_NoStatus(resStatus, json, text) ==
    LET msg == IF ~json.isNull /\ Truthy(json.at["message"]) THEN <<json.at["message"]>>
               ELSE IF ~json.isNull /\ Truthy(json.at["error"]) THEN <<json.at["error"]>>
               ELSE text
    IN  AuthPatternTest(msg)

looksLikeAuthProblem(resStatus, json, text) ==
    \/ resStatus = 401
    \/ resStatus = 403
    \/ LET msg == IF ~json.isNull /\ Truthy(json.at["message"]) THEN <<json.at["message"]>>
                  ELSE IF ~json.isNull /\ Truthy(json.at["error"]) THEN <<json.at["error"]>>
                  ELSE text
       IN  AuthPatternTest(msg)

\* What a call of requestJson ends in: a returned payload, or a thrown error
\* with its code ("RATE_LIMIT", "AUTH", or "" for an error without code).
Returned(json) ==
    [threw |-> FALSE, code |-> "", status |-> 0, waitMs |-> NoWait, json |-> json]

Thrown(code, status, waitMs) ==
    [threw |-> TRUE, code |-> code, status |-> status, waitMs |-> waitMs, json |-> JsonNull]

\* res.ok
ResOk(res) == res.status >= 200 /\ res.status <= 299

\* A mutant: a body that parses is returned whatever the status is.
requestJsonBody_OkFirst(res) ==
    LET p == JSONparse(res.text)
    IN  IF res.text # <<>> /\ p.threw
        THEN IF looksLikeAuthProblem(res.status, JsonNull, res.text)
             THEN Thrown("AUTH", res.status, NoWait)
             ELSE Thrown("", res.status, NoWait)
        ELSE Returned(IF res.text # <<>> THEN p.json ELSE JsonNull)

\* the part of requestJson after the 429 test
requestJsonBody(res) ==
    LET p == JSONparse(res.text)
    IN  IF res.text # <<>> /\ p.threw
        THEN IF looksLikeAuthProblem(res.status, JsonNull, res.text)
             THEN Thrown("AUTH", res.status, NoWait)
             ELSE Thrown("", res.status, NoWait)
        ELSE LET json == IF res.text # <<>> THEN p.json ELSE JsonNull
             IN  IF ~ResOk(res)
                 THEN IF looksLikeAuthProblem(res.status, json, res.text)
                      THEN Thrown("AUTH", res.status, NoWait)
                      ELSE Thrown("", res.status, NoWait)
                 ELSE Returned(json)

\* A mutant: the body is classified first, the 429 test comes last.
requestJson_ParseFirst(res) ==
    LET o == requestJsonBody(res)
    IN  IF o.threw /\ o.code = "AUTH" THEN o
        ELSE IF res.status = 429
        THEN LET ms == parseRetryAfterMs(res.retryAfter)
             IN  Thrown("RATE_LIMIT", 429,
                        IF ms # NoWait THEN ms ELSE RATE_LIMIT_FALLBACK_WAIT_MS)
        ELSE o

requestJson(res) ==
    IF res.status = 429
    THEN LET ms == parseRetryAfterMs(res.retryAfter)
         IN  Thrown("RATE_LIMIT", 429,
                    IF ms # NoWait THEN ms ELSE RATE_LIMIT_FALLBACK_WAIT_MS)
    ELSE requestJsonBody(res)

\* The four outcomes the specification names.
Variant(o) ==
    IF ~o.threw THEN "Ok"
    ELSE IF o.code = "RATE_LIMIT" THEN "RateLimited"
    ELSE IF o.code = "AUTH" THEN "AuthInvalid"
    ELSE "Failure"

-----------------------------------------------------------------------------
(* Bounds of the model.                                                    *)

\* accounts in cfg.accounts (the prompts for one more account stop there)
MaxAccounts == 2
\* tasks in one listing of getTasks
MaxTasks == 3
\* cycles of the token-pair loop
MaxCycles == 3
\* obs: AuthInvalid outcomes of one operation are counted up to this ("many")
ManyAuth == 2
\* obs: calls of refreshCookieForAccount in one account run are counted up to this
ManyRefresh == 2
\* obs: the waits of one operation are summed up to this many ms
WaitCap == 6000
\* lootboxes opened for one account in the repeat mode
MaxOpens == 2
\* obs: RateLimited answers of one open action are counted up to this ("many")
ManyLimited == 4

-----------------------------------------------------------------------------
(* Cookies, the operator, the configuration file.                          *)

Cred1 == <<"c", "=", "1">>
Cred2 == <<"c", "=", "2">>
Empty == <<>>

\* obs: no cookie / no answer yet
NoCred == <<"#none">>

\* what the operator may type at "Enter full cookie string: "
RawAnswers == {Empty, <<" ">>, Cred1, <<" ">> \o Cred1 \o <<" ">>, Cred2}

\* promptLine: the answer, trimmed
promptLine(raw) == trim(raw)

\* promptCookie
promptCookie(raw) == promptLine(raw)

\* An entry of the accounts array of config.json: a cookie string, an object
\* without a string cookie, or something that is no object.
NoCookieEntry == <<"#nocookie">>
JunkEntry == <<"#junk">>
FileEntries == {JunkEntry, NoCookieEntry, Empty, Cred1, <<" ">> \o Cred2}

RECURSIVE SeqsUpTo(_, _)
SeqsUpTo(S, n) ==
    IF n = 0 THEN {<<>>}
    ELSE LET shorter == SeqsUpTo(S, n - 1)
         IN  shorter \cup {Append(q, x) : q \in shorter, x \in S}

\* config.json: missing, unparseable, an object of the legacy format (one
\* cookie, no accounts), or an object with an accounts array.
FileContents ==
    {[exists |-> FALSE, parses |-> FALSE, cookie |-> Empty, accounts |-> <<>>],
     [exists |-> TRUE, parses |-> FALSE, cookie |-> Empty, accounts |-> <<>>],
     [exists |-> TRUE, parses |-> TRUE, cookie |-> <<" ">> \o Cred1, accounts |-> <<>>]}
    \cup [exists : {TRUE}, parses : {TRUE}, cookie : {Empty},
          accounts : SeqsUpTo(FileEntries, MaxAccounts)]

\* readConfigIfExists: null (here an object without content) when the file is
\* missing or does not parse
readConfigIfExists(file) ==
    IF file.exists /\ file.parses THEN file
    ELSE [exists |-> TRUE, parses |-> TRUE, cookie |-> Empty, accounts |-> <<>>]

RECURSIVE NormalizeEntries(_)
NormalizeEntries(entries) ==
    IF entries = <<>> THEN <<>>
    ELSE IF Head(entries) = JunkEntry THEN NormalizeEntries(Tail(entries))
    ELSE IF Head(entries) = NoCookieEntry
         THEN <<[cookie |-> Empty]>> \o NormalizeEntries(Tail(entries))
    ELSE <<[cookie |-> trim(Head(entries))]>> \o NormalizeEntries(Tail(entries))

\* normalizeConfig (labels are left out: they only appear in log lines)
normalizeConfig(file) ==
    LET migrated == IF trim(file.cookie) # Empty /\ Len(file.accounts) = 0
                    THEN <<trim(file.cookie)>>
                    ELSE file.accounts
    IN  [accounts |-> NormalizeEntries(migrated)]

\* what atomicWriteJson leaves at CONFIG_PATH: JSON.stringify(cfg)
saveConfig(c) ==
    [exists |-> TRUE, parses |-> TRUE, cookie |-> Empty,
     accounts |-> [i \in 1..Len(c.accounts) |-> c.accounts[i].cookie]]

\* A mutant: the cookie is set in memory and not saved.
setAccountCookie_NoSave(c, d, index, newCookie) ==
    [cfg |-> [c EXCEPT !.accounts[index].cookie = trim(newCookie)], disk |-> d]

\* setAccountCookie: the new cfg and the new file (index is 1-based here)
setAccountCookie(c, d, index, newCookie) ==
    LET c2 == [c EXCEPT !.accounts[index].cookie = trim(newCookie)]
    IN  [cfg |-> c2, disk |-> saveConfig(c2)]

-----------------------------------------------------------------------------
(* The remote service, as the program sees it: each call draws a response  *)
(* and requestJson classifies it; fetch itself may reject (no code).       *)

Hdr(k, n) == [k |-> k, n |-> n]
Resp(status, ra, text) == [status |-> status, retryAfter |-> ra, text |-> text]

ErrorResponses ==
    {Resp(401, Hdr("absent", 0), <<>>),
     Resp(400, Hdr("absent", 0), <<"{", "message", "Session expired", "}">>),
     Resp(429, Hdr("secs", 2), <<"{", "message", "Session expired", "}">>),
     Resp(429, Hdr("absent", 0), <<"<html>", "Bad gateway">>),
     Resp(500, Hdr("absent", 0), <<"<html>", "Bad gateway">>),
     Resp(200, Hdr("absent", 0), <<"{", "success", "false", "}">>)}

OkText(api) ==
    IF api = "me" THEN <<"{", "success", "true", "user", "{user}", "}">>
    ELSE IF api = "tasks" THEN <<"{", "success", "true", "tasks", "[tasks]", "}">>
    ELSE IF api \in {"complete", "open"} THEN <<"{", "success", "true", "}">>
    ELSE IF api = "token" THEN <<"{", "success", "true", "token", "{token}", "}">>
    ELSE <<"{", "success", "true", "balance", "100", "}">>

\* other bodies a 2xx answer may have: a balance that is no number, a balance
\* without success; a prize, a prize with the jackpot flag (meta.wonUsdt), a
\* prize that has no type
OtherOkTexts(api) ==
    IF api = "balance"
    THEN {<<"{", "success", "true", "balance", "n/a", "}">>,
          <<"{", "success", "false", "balance", "100", "}">>}
    ELSE IF api = "open"
    THEN {<<"{", "success", "true", "prize", "{prize}", "}">>,
          <<"{", "success", "true", "prize", "{prize}", "meta", "{wonUsdt}", "}">>,
          <<"{", "success", "true", "prize", "{untyped}", "}">>}
    ELSE {}

NetResponses(api) ==
    ErrorResponses \cup {Resp(200, Hdr("absent", 0), t) : t \in {OkText(api)} \cup OtherOkTexts(api)}

FetchFailed == Thrown("", 0, NoWait)

\* the ways an API call (getMe, getTasks, ...) can end
NetOutcomes(api) == {requestJson(r) : r \in NetResponses(api)} \cup {FetchFailed}

\* me?.success && me?.user, and the like
Has(o, k) == ~o.threw /\ ~o.json.isNull /\ Truthy(o.json.at[k])

\* randInt(min, max): any integer of min..max, here one of the two ends
randInt(min, max) == {min, max}

-----------------------------------------------------------------------------
(* Frames and their idle values.                                           *)

NoGuard ==
    [fn |-> "", index |-> 0, i |-> 0, cookie |-> Empty, at |-> "", ret |-> "",
     prompts |-> 0, checks |-> 0, start |-> Empty, check1 |-> "", ans |-> NoCred]

NoRes ==
    [fn |-> "", index |-> 0, i |-> 0, ok |-> FALSE, cookie |-> Empty, err |-> "",
     prompts |-> 0, checks |-> 0, start |-> Empty, check1 |-> ""]

NoRt ==
    [cookie |-> Empty, tasks |-> <<>>, pending |-> <<>>, i |-> 0, attempt |-> 0,
     waitMs |-> 0]

NoTx == [cycle |-> 0, pairNumber |-> 0, cookie |-> Empty, attempt |-> 0, waitMs |-> 0]

NoSig == [handler |-> FALSE, stopRequested |-> FALSE, forceQuit |-> FALSE]

NoSleep ==
    [ms |-> 0, remaining |-> 0, sleepTime |-> 0, withState |-> FALSE, ret |-> "",
     stopAt |-> NoWait]

NoOp ==
    [name |-> "", inv |-> 0, auth |-> 0, rl |-> 0, hinted |-> FALSE, waits |-> 0,
     wait |-> 0, cred1 |-> NoCred, cred2 |-> NoCred, refreshed |-> NoCred,
     returned |-> "", result |-> ""]

NoRun == [refreshCalls |-> 0, dev |-> "none", devAt |-> 0, sent |-> <<>>,
          processed |-> <<>>, ended |-> ""]

NoCall == [hit |-> FALSE, index |-> 0, start |-> Empty, cookie |-> Empty, prompts |-> 0]

\* a path at which there is no file
NoFile == [exists |-> FALSE, parses |-> FALSE, cookie |-> Empty, accounts |-> <<>>]

\* a number as JavaScript has it: NaN or n
Num(n) == [nan |-> FALSE, n |-> n]
NaN == [nan |-> TRUE, n |-> 0]

NoLb ==
    [cookie |-> Empty, lootboxId |-> 0, isRepeat |-> FALSE, opened |-> 0, waitMs |-> 0,
     bal |-> Num(0), limited |-> 0]

\* obs: net is the last answer of a remote call, at the site pc that awaited
\* it and as the variant requestJson made of it; before is how the runs of the
\* earlier accounts of the loop of main ended; prev is the file as it was when
\* the running save was called
NoNet == [at |-> "", v |-> ""]
NoSeen == [net |-> NoNet, before |-> <<>>, prev |-> NoFile]

\* obs: the call awaited at site at was answered with outcome o
Heard(at, o) == [seen EXCEPT !.net = [at |-> at, v |-> Variant(o)]]

\* obs: what is known of the stored cookie of an account: whether the guard
\* stored it, and whether getMe accepted it when it was stored
Unchecked == [byGuard |-> FALSE, ok |-> FALSE]

-----------------------------------------------------------------------------
(* The credential guard: ensureValidCookieForAccount ("ensure") and        *)
(* refreshCookieForAccount ("refresh").  g.at says what the call awaits:   *)
(* the operator's answer ("prompt") or the response of getMe ("getMe").    *)

\* A mutant: the loop runs one time more than AUTH_MAX_RETRY.
GuardTop_OneMore(f) ==
    IF f.i > AUTH_MAX_RETRY + 1 THEN [f EXCEPT !.at = "exhausted"]
    ELSE IF f.fn = "refresh" \/ trim(f.cookie) = Empty
    THEN [f EXCEPT !.at = "prompt", !.prompts = @ + 1]
    ELSE [f EXCEPT !.at = "getMe", !.checks = @ + 1]

\* A mutant: refresh, like ensure, prompts only when it has no cookie at hand.
GuardTop_RefreshReuses(f) ==
    IF f.i > AUTH_MAX_RETRY THEN [f EXCEPT !.at = "exhausted"]
    ELSE IF trim(f.cookie) = Empty
    THEN [f EXCEPT !.at = "prompt", !.prompts = @ + 1]
    ELSE [f EXCEPT !.at = "getMe", !.checks = @ + 1]

\* A mutant: ensure sends the stored cookie without looking whether it is empty.
GuardTop_SendsStored(f) ==
    IF f.i > AUTH_MAX_RETRY THEN [f EXCEPT !.at = "exhausted"]
    ELSE IF f.fn = "refresh" \/ (f.i > 1 /\ trim(f.cookie) = Empty)
    THEN [f EXCEPT !.at = "prompt", !.prompts = @ + 1]
    ELSE [f EXCEPT !.at = "getMe", !.checks = @ + 1]

\* the top of the for loop: past AUTH_MAX_RETRY the loop is left, else the
\* next await is the prompt or, with a cookie at hand in ensure, getMe
GuardTop(f) ==
    IF f.i > AUTH_MAX_RETRY THEN [f EXCEPT !.at = "exhausted"]
    ELSE IF f.fn = "refresh" \/ trim(f.cookie) = Empty
    THEN [f EXCEPT !.at = "prompt", !.prompts = @ + 1]
    ELSE [f EXCEPT !.at = "getMe", !.checks = @ + 1]

\* A mutant: ensure starts without the stored cookie, as refresh does.
StartCookie_Forgotten(fn, stored) == Empty

\* let cookie = cfg.accounts[index].cookie || "" in ensure, "" in refresh
StartCookie(fn, stored) == IF fn = "ensure" THEN stored ELSE Empty

\* the frame of a call that starts
GuardFrame(fn, index, ret) ==
    GuardTop([NoGuard EXCEPT !.fn = fn, !.index = index, !.i = 1, !.ret = ret,
                             !.cookie = StartCookie(fn, cfg.accounts[index].cookie),
                             !.start = cfg.accounts[index].cookie])

GuardResult(f, ok, err) ==
    [fn |-> f.fn, index |-> f.index, i |-> f.i, ok |-> ok,
     cookie |-> IF ok THEN f.cookie ELSE Empty, err |-> err,
     prompts |-> f.prompts, checks |-> f.checks, start |-> f.start,
     check1 |-> f.check1]

\* the call goes on with frame f, or the loop was left and it throws
GuardGoes(f) ==
    IF f.at = "exhausted"
    THEN /\ g' = NoGuard
         /\ gres' = GuardResult(f, FALSE, "EXHAUSTED")
         /\ pc' = f.ret
    ELSE /\ g' = f
         /\ gres' = gres
         /\ pc' = pc

RtSites == {"rt_ensured", "rt_tasksRefreshed", "rt_completeRefreshed", "rt_meRefreshed"}

\* obs: the account run.  sent is the ids of the tasks in the order of their
\* first completion call, processed the ids of the tasks whose identity
\* refresh is over, ended how runTasksForAccount was left.  The rest follows
\* the run after a call that did or did not succeed.  dev goes
\* from "none" to "completeAuth" when the completion of task k is the first
\* call to fail and fails with AUTH, to "authThenOk" when the next call is
\* that completion again and succeeds, and to "other" at any other failure.
RunAfter(r, success, api, code, k) ==
    IF success
    THEN IF r.dev = "completeAuth" /\ api = "complete" /\ r.devAt = k
         THEN [r EXCEPT !.dev = "authThenOk"]
         ELSE r
    ELSE IF r.dev = "none" /\ api = "complete" /\ code = "AUTH"
         THEN [r EXCEPT !.dev = "completeAuth", !.devAt = k]
    ELSE [r EXCEPT !.dev = "other", !.devAt = 0]

\* the operator answers the prompt of the guard
GuardAnswer ==
    /\ pc = "guard" /\ g.at = "prompt"
    /\ \E raw \in RawAnswers :
          LET c  == trim(promptCookie(raw))
              f1 == [g EXCEPT !.cookie = c, !.ans = c]
          IN  IF c = Empty
              THEN GuardGoes(GuardTop([f1 EXCEPT !.i = @ + 1]))
              ELSE GuardGoes([f1 EXCEPT !.at = "getMe", !.checks = @ + 1])
    /\ UNCHANGED <<response, outcome, tmp, lb, mode, seen, disk, cfg, ai, rt, tx, sig,
                   sl, accepted, op, run, lastCall>>

\* A mutant: ensure keeps the rejected cookie in its local variable.
GuardAfterAuth_Keeps(f) == [f EXCEPT !.i = @ + 1, !.ans = NoCred]

\* the catch of an AUTH error: ensure clears its local cookie (cookie = ""),
\* refresh keeps it until the next prompt overwrites it; both continue.  The
\* answer of the turn (obs) is forgotten.
GuardAfterAuth(f) ==
    [f EXCEPT !.i = @ + 1, !.cookie = IF f.fn = "ensure" THEN Empty ELSE @,
              !.ans = NoCred]

\* A mutant: every thrown error is taken for an AUTH error.
IsAuthError_AnyError(o) == o.threw

\* if (e && e.code === "AUTH") in a catch
IsAuthError(o) == o.threw /\ o.code = "AUTH"

\* obs: the identity check accepts the cookie it was sent
Accepts(o) == Has(o, "success") /\ Has(o, "user")

\* A mutant: any answer without an error passes for a valid session.
MeValid_AnyAnswer(o) == ~o.threw

\* if (!me?.success || !me?.user) throw new Error("Invalid /auth/me response.")
MeValid(o) == Has(o, "success") /\ Has(o, "user")

\* getMe answers the guard
GuardGetMe ==
    /\ pc = "guard" /\ g.at = "getMe"
    /\ \E o \in NetOutcomes("me") :
          LET valid == MeValid(o)
              f1 == [g EXCEPT !.check1 = IF g.checks # 1 THEN @
                                         ELSE IF valid THEN "accepted"
                                         ELSE IF o.threw /\ o.code = "AUTH" THEN "auth"
                                         ELSE "other"]
          IN  /\ run' = IF g.ret \in RtSites
                        THEN RunAfter(run, Accepts(o), "me", o.code, 0) ELSE run
              /\ seen' = Heard(pc, o)
              /\ IF valid
                 THEN LET w == setAccountCookie(cfg, disk, g.index, g.cookie)
                      IN  /\ cfg' = w.cfg
                          /\ disk' = w.disk
                          /\ accepted' = [accepted EXCEPT ![g.index] =
                                            [byGuard |-> TRUE,
                                             ok |-> Accepts(o) /\
                                                    w.cfg.accounts[g.index].cookie = g.cookie]]
                          /\ g' = NoGuard
                          /\ gres' = GuardResult(f1, TRUE, "")
                          /\ pc' = g.ret
                 ELSE /\ UNCHANGED <<cfg, disk, accepted>>
                      /\ IF IsAuthError(o)
                         THEN GuardGoes(GuardTop(GuardAfterAuth(f1)))
                         ELSE /\ g' = NoGuard
                              /\ gres' = GuardResult(f1, FALSE,
                                            IF ~o.threw THEN "INVALID_ME"
                                            ELSE IF o.code = "RATE_LIMIT" THEN "RATE_LIMIT"
                                            ELSE "FAILURE")
                              /\ pc' = g.ret
    /\ UNCHANGED <<response, outcome, tmp, lb, mode, ai, rt, tx, sig, sl, op, lastCall>>

\* a caller calls the guard: the frame, up to the first await
CallGuard(fn, index, ret) ==
    /\ g' = GuardFrame(fn, index, ret)
    /\ pc' = "guard"

\* obs: what is kept of a call once its result was taken
CallSummary(r) ==
    IF r.fn = "ensure" /\ r.start # Empty /\ r.check1 = "accepted"
    THEN [hit |-> TRUE, index |-> r.index, start |-> r.start, cookie |-> r.cookie,
          prompts |-> r.prompts]
    ELSE NoCall

\* the caller takes the result of the guard
Consume ==
    /\ gres' = NoRes
    /\ lastCall' = CallSummary(gres)

-----------------------------------------------------------------------------
(* main, up to the choice of the mode.                                     *)

\* normalizeConfig(readConfigIfExists()); saveConfig(cfg); then the first
\* prompt of ensureAccountsExist or of maybeAppendMoreAccounts
Boot ==
    /\ pc = "boot"
    /\ cfg' = normalizeConfig(readConfigIfExists(disk))
    /\ disk' = saveConfig(cfg')
    /\ accepted' = [i \in 1..Len(cfg'.accounts) |-> Unchecked]
    /\ pc' = IF Len(cfg'.accounts) > 0 THEN "append_ask" ELSE "create"
    /\ UNCHANGED <<response, outcome, tmp, lb, mode, seen, ai, g, gres, rt, tx, sig, sl,
                   op, run, lastCall>>

\* one turn of the loop of ensureAccountsExist (pc = "create") or of
\* maybeAppendMoreAccounts (pc = "append"): label, cookie, one more?
AddAccount ==
    /\ pc \in {"create", "append"}
    /\ \E raw \in RawAnswers, more \in BOOLEAN :
          LET cookie == trim(promptCookie(raw))
          IN  IF cookie = Empty
              THEN /\ more = FALSE
                   /\ UNCHANGED <<cfg, disk, accepted, pc>>
              ELSE /\ cfg' = [cfg EXCEPT !.accounts = Append(@, [cookie |-> cookie])]
                   /\ disk' = saveConfig(cfg')
                   /\ accepted' = Append(accepted, Unchecked)
                   /\ more => Len(cfg'.accounts) < MaxAccounts
                   /\ pc' = IF more THEN pc
                            ELSE IF pc = "create" THEN "append_ask" ELSE "menu"
    /\ UNCHANGED <<response, outcome, tmp, lb, mode, seen, ai, g, gres, rt, tx, sig, sl,
                   op, run, lastCall>>

\* maybeAppendMoreAccounts: "Do you want to add another account now?"
AppendAsk ==
    /\ pc = "append_ask"
    /\ \E more \in BOOLEAN :
          /\ more => Len(cfg.accounts) < MaxAccounts
          /\ pc' = IF more THEN "append" ELSE "menu"
    /\ UNCHANGED <<response, outcome, tmp, lb, mode, seen, disk, cfg, ai, g, gres, rt,
                   tx, sig, sl, accepted, op, run, lastCall>>

-----------------------------------------------------------------------------
(* Mode 1: runTasksForAccount and the TASKS loop of main.                  *)

\* a listing of getTasks: the completed field of each task, in order; the id
\* of a task is its place in the listing
CompletedValues == {"false", "true", Undefined}

\* the listings of the model: up to MaxTasks tasks; tasks marked completed and
\* tasks without the field stand before, between and after the pending ones
Listings ==
    {l \in {<<>>, <<"true">>, <<Undefined, "true">>, <<"false">>, <<"false", "false">>,
            <<"false", Undefined, "false">>, <<"true", "false", "false">>,
            <<"false", "false", "false">>, <<"false", "true", Undefined, "false">>} :
        Len(l) <= MaxTasks /\ \A k \in DOMAIN l : l[k] \in CompletedValues}

RECURSIVE PendingFrom(_, _)
PendingFrom(listing, k) ==
    IF k > Len(listing) THEN <<>>
    ELSE IF listing[k] = "false" THEN <<k>> \o PendingFrom(listing, k + 1)
    ELSE PendingFrom(listing, k + 1)

\* A mutant: every task that is not marked completed is taken, the tasks
\* without the field included (!t.completed).
RECURSIVE PendingFrom_NotTrue(_, _)
PendingFrom_NotTrue(listing, k) ==
    IF k > Len(listing) THEN <<>>
    ELSE IF listing[k] # "true" THEN <<k>> \o PendingFrom_NotTrue(listing, k + 1)
    ELSE PendingFrom_NotTrue(listing, k + 1)

PendingOf_NotTrue(listing) == PendingFrom_NotTrue(listing, 1)

\* t0.tasks.filter((t) => t && t.completed === false)
PendingOf(listing) == PendingFrom(listing, 1)

\* obs: an operation (one task completion, one token creation) starts with
\* its first invocation, made with cookie c.  inv, auth and rl count the
\* invocations and those that ended AUTH and RATE_LIMIT.  hinted says that
\* every invocation so far ended RATE_LIMIT with a hint of 2000 ms; while it
\* does, waits counts the waits that were no shorter than the hint and wait
\* adds them up.  cred1 is the cookie of the first invocation; refreshed and
\* cred2 are the cookie the refresh returned and the cookie of the second
\* invocation, kept while the first AUTH error is the only failure.  returned
\* is what the last invocation returned, result how the loop was left.
OpStarts(name, c) == [NoOp EXCEPT !.name = name, !.inv = 1, !.hinted = TRUE, !.cred1 = c]

\* obs: an invocation ended with an error of this code
OpFailed(o, code, waitMs) ==
    LET o1 == IF code = "AUTH" THEN [o EXCEPT !.auth = Min(@ + 1, ManyAuth)]
              ELSE IF code = "RATE_LIMIT" THEN [o EXCEPT !.rl = @ + 1]
              ELSE o
        o2 == IF code = "RATE_LIMIT" /\ waitMs = 2000 /\ o.hinted THEN o1
              ELSE [o1 EXCEPT !.hinted = FALSE, !.waits = 0, !.wait = 0]
    IN  IF code = "AUTH" /\ o.inv = 1 THEN o2
        ELSE [o2 EXCEPT !.cred2 = NoCred, !.refreshed = NoCred]

\* obs: an invocation returned, with success or without, and the loop is left
OpReturned(o, success) ==
    LET how == IF success THEN "Ok" ELSE "NotOk"
    IN  [o EXCEPT !.returned = how, !.result = how, !.hinted = FALSE, !.waits = 0,
                  !.wait = 0]

\* obs: the refresh after the AUTH error returned this cookie
OpRefreshed(o, c) == IF o.inv = 1 THEN [o EXCEPT !.refreshed = c] ELSE o

\* obs: one more invocation, made with cookie c
OpAgain(o, c) ==
    [o EXCEPT !.inv = Min(@ + 1, RATE_LIMIT_MAX_RETRY + 1),
              !.cred2 = IF o.inv = 1 /\ o.auth = 1 THEN c ELSE @]

\* main calls runTasksForAccount(cfg, i): up to the first await of the guard
StartRunTasks(i) ==
    /\ ai' = i
    /\ rt' = NoRt
    /\ run' = NoRun
    /\ op' = NoOp
    /\ seen' = [seen EXCEPT !.before = IF i = 1 THEN <<>> ELSE Append(@, run.ended)]
    /\ CallGuard("ensure", i, "rt_ensured")

\* A mutant: the call of runTasksForAccount is not wrapped in try/catch, its
\* error reaches the catch at the end of main.
AfterRunTasks_Unwinds(how) == IF how = "threw" THEN "failed" ELSE "main_next"

\* try { await runTasksForAccount(cfg, i) } catch (e) { logErr(...) }: whether
\* the call returned or threw, the for loop of main goes on
AfterRunTasks(how) == "main_next"

\* runTasksForAccount is left: it returned or threw into the catch of main
RunEnds(how) ==
    /\ pc' = AfterRunTasks(how)
    /\ run' = [run EXCEPT !.ended = how]

\* promptMenu, answered "1" (anything but 1, 2, 3 asks again)
MenuTasks ==
    /\ pc = "menu"
    /\ mode' = "TASKS"
    /\ StartRunTasks(1)
    /\ UNCHANGED <<response, outcome, tmp, lb, disk, cfg, gres, tx, sig, sl, accepted,
                   lastCall>>

MenuInvalid ==
    /\ pc = "menu"
    /\ UNCHANGED vars

\* let { cookie } = await ensureValidCookieForAccount(cfg, index)
RT_Ensured ==
    /\ pc = "rt_ensured"
    /\ Consume
    /\ IF gres.ok
       THEN /\ rt' = [rt EXCEPT !.cookie = gres.cookie]
            /\ pc' = "rt_getTasks"
            /\ UNCHANGED run
       ELSE /\ RunEnds("threw")
            /\ UNCHANGED rt
    /\ UNCHANGED <<response, outcome, tmp, lb, mode, seen, disk, cfg, ai, g, tx, sig,
                   sl, accepted, op>>

\* getTasks answers
RT_GetTasks ==
    /\ pc = "rt_getTasks"
    /\ \E o \in NetOutcomes("tasks") :
          LET listed == Has(o, "success") /\ ~o.threw /\ o.json.at["tasks"] = "[tasks]"
              r1 == RunAfter(run, listed, "tasks", o.code, 0)
          IN  /\ seen' = Heard(pc, o)
              /\ IF IsAuthError(o)
                 THEN /\ CallGuard("refresh", ai, "rt_tasksRefreshed")
                      /\ run' = [r1 EXCEPT !.refreshCalls = Min(@ + 1, ManyRefresh)]
                      /\ UNCHANGED rt
                 ELSE IF ~listed
                 THEN /\ pc' = AfterRunTasks("threw")
                      /\ run' = [r1 EXCEPT !.ended = "threw"]
                      /\ UNCHANGED <<g, rt>>
                 ELSE \E listing \in Listings :
                         LET pending == PendingOf(listing)
                         IN  IF Len(pending) = 0
                             THEN /\ pc' = AfterRunTasks("returned")
                                  /\ rt' = [rt EXCEPT !.tasks = listing]
                                  /\ run' = [r1 EXCEPT !.ended = "returned"]
                                  /\ UNCHANGED g
                             ELSE /\ pc' = "rt_delay"
                                  /\ rt' = [rt EXCEPT !.tasks = listing,
                                                      !.pending = pending, !.i = 1]
                                  /\ run' = r1
                                  /\ UNCHANGED g
    /\ UNCHANGED <<response, outcome, tmp, lb, mode, disk, cfg, ai, gres, tx, sig, sl,
                   accepted, op, lastCall>>

\* the refresh after an AUTH error of getTasks returned or threw
RT_TasksRefreshed ==
    /\ pc = "rt_tasksRefreshed"
    /\ Consume
    /\ IF gres.ok
       THEN /\ rt' = [rt EXCEPT !.cookie = gres.cookie]
            /\ pc' = "rt_getTasks"
            /\ UNCHANGED run
       ELSE /\ RunEnds("threw")
            /\ UNCHANGED rt
    /\ UNCHANGED <<response, outcome, tmp, lb, mode, seen, disk, cfg, ai, g, tx, sig,
                   sl, accepted, op>>

\* the task delay is over: attempt = 0, the loop is entered, completeTask is sent
RT_Delay ==
    /\ pc = "rt_delay"
    /\ rt' = [rt EXCEPT !.attempt = 1]
    /\ op' = OpStarts("complete", rt.cookie)
    /\ run' = [run EXCEPT !.sent = Append(@, rt.pending[rt.i])]
    /\ pc' = "rt_complete"
    /\ UNCHANGED <<response, outcome, tmp, lb, mode, seen, disk, cfg, ai, g, gres, tx,
                   sig, sl, accepted, lastCall>>

\* A mutant: an error without a code is waited out and retried like a 429.
CompleteCatch_RetriesFailure(o) == IF o.code = "AUTH" THEN "refresh" ELSE "wait"

\* the catch around completeTask: refresh and continue, wait and continue,
\* or log and break
CompleteCatch(o) ==
    IF o.code = "AUTH" THEN "refresh"
    ELSE IF o.code = "RATE_LIMIT" THEN "wait"
    ELSE "break"

\* completeTask answers
RT_Complete ==
    /\ pc = "rt_complete"
    /\ \E o \in NetOutcomes("complete") :
          /\ seen' = Heard(pc, o)
          /\ run' = LET r1 == RunAfter(run, Has(o, "success"), "complete", o.code, rt.i)
                    IN  IF o.threw /\ o.code = "AUTH"
                        THEN [r1 EXCEPT !.refreshCalls = Min(@ + 1, ManyRefresh)]
                        ELSE r1
          /\ IF ~o.threw
             THEN /\ op' = OpReturned(op, Has(o, "success"))
                  /\ pc' = "rt_me"
                  /\ UNCHANGED <<g, rt>>
             ELSE IF CompleteCatch(o) = "refresh"
             THEN /\ op' = OpFailed(op, o.code, o.waitMs)
                  /\ CallGuard("refresh", ai, "rt_completeRefreshed")
                  /\ UNCHANGED rt
             ELSE IF CompleteCatch(o) = "wait"
             THEN /\ op' = OpFailed(op, o.code, o.waitMs)
                  /\ rt' = [rt EXCEPT !.waitMs = IF o.waitMs # NoWait THEN o.waitMs
                                                 ELSE RATE_LIMIT_FALLBACK_WAIT_MS]
                  /\ pc' = "rt_wait429"
                  /\ UNCHANGED g
             ELSE /\ op' = [OpFailed(op, o.code, o.waitMs) EXCEPT !.result = "Failure"]
                  /\ pc' = "rt_me"
                  /\ UNCHANGED <<g, rt>>
    /\ UNCHANGED <<response, outcome, tmp, lb, mode, disk, cfg, ai, gres, tx, sig, sl,
                   accepted, lastCall>>

\* obs: a wait of ms for a hint of hintMs was performed in the operation
OpWaited(o, ms, hintMs) ==
    IF o.hinted
    THEN [o EXCEPT !.wait = Min(@ + ms, WaitCap),
                   !.waits = IF ms >= hintMs THEN @ + 1 ELSE @]
    ELSE o

\* A mutant: the loop of the retry budget runs one time less.
BudgetLeft_OneLess(attempt) == attempt < RATE_LIMIT_MAX_RETRY - 1

\* while (attempt < RATE_LIMIT_MAX_RETRY)
BudgetLeft(attempt) == attempt < RATE_LIMIT_MAX_RETRY

\* await sleep(waitMs); await sleepRandom(500, 1500, jitter): the time waited
WaitAfter429(waitMs, jitter) == waitMs + jitter

\* sleep(waitMs) and the jitter are over: the next attempt, or the loop is left
RT_Wait429 ==
    /\ pc = "rt_wait429"
    /\ \E jitter \in randInt(500, 1500) :
          LET o1 == OpWaited(op, WaitAfter429(rt.waitMs, jitter), rt.waitMs)
          IN  IF BudgetLeft(rt.attempt)
              THEN /\ rt' = [rt EXCEPT !.attempt = @ + 1, !.waitMs = 0]
                   /\ op' = OpAgain(o1, rt.cookie)
                   /\ pc' = "rt_complete"
              ELSE /\ rt' = [rt EXCEPT !.waitMs = 0]
                   /\ op' = [o1 EXCEPT !.result = "GaveUp"]
                   /\ pc' = "rt_me"
    /\ UNCHANGED <<response, outcome, tmp, lb, mode, seen, disk, cfg, ai, g, gres, tx,
                   sig, sl, accepted, run, lastCall>>

\* A mutant: after the refresh the loop goes on with the cookie it had.
CookieAfterRefresh_Stale(old, refreshed) == old

\* cookie = refreshed.cookie
CookieAfterRefresh(old, refreshed) == refreshed

\* A mutant: the attempt that ended with an AUTH error stays counted.
AttemptAfterRefresh_Consumed(attempt) == attempt

\* A mutant: a refresh gives the operation its whole budget back.
AttemptAfterRefresh_Reset(attempt) == 0

\* attempt--, once the refresh returned
AttemptAfterRefresh(attempt) == attempt - 1

\* the refresh after an AUTH error of completeTask returned or threw
RT_CompleteRefreshed ==
    /\ pc = "rt_completeRefreshed"
    /\ Consume
    /\ IF gres.ok
       THEN LET c == CookieAfterRefresh(rt.cookie, gres.cookie)
                o1 == OpRefreshed(op, gres.cookie)
                attempt == AttemptAfterRefresh(rt.attempt)
            IN  \* attempt--; continue; then the test of the while and attempt++
                IF BudgetLeft(attempt)
                THEN /\ rt' = [rt EXCEPT !.cookie = c, !.attempt = attempt + 1]
                     /\ op' = OpAgain(o1, c)
                     /\ pc' = "rt_complete"
                     /\ UNCHANGED run
                ELSE /\ rt' = [rt EXCEPT !.cookie = c, !.attempt = attempt]
                     /\ op' = [o1 EXCEPT !.result = "GaveUp"]
                     /\ pc' = "rt_me"
                     /\ UNCHANGED run
       ELSE /\ op' = [op EXCEPT !.result = "Threw"]
            /\ RunEnds("threw")
            /\ UNCHANGED rt
    /\ UNCHANGED <<response, outcome, tmp, lb, mode, seen, disk, cfg, ai, g, tx, sig,
                   sl, accepted>>

\* A mutant: the for loop of the pending tasks ends one task early.
MoreTasks_OneLess(i, pending) == i < Len(pending) - 1

\* i++; i < pending.length
MoreTasks(i, pending) == i < Len(pending)

\* the for loop of the pending tasks goes on after task rt.i
TaskDone(r1) ==
    LET r2 == [r1 EXCEPT !.processed = Append(@, rt.pending[rt.i])]
    IN  IF MoreTasks(rt.i, rt.pending)
        THEN /\ rt' = [rt EXCEPT !.i = @ + 1, !.attempt = 0]
             /\ run' = r2
             /\ pc' = "rt_delay"
        ELSE /\ rt' = rt
             /\ run' = [r2 EXCEPT !.ended = "returned"]
             /\ pc' = AfterRunTasks("returned")

\* getMe after the task answers
RT_Me ==
    /\ pc = "rt_me"
    /\ \E o \in NetOutcomes("me") :
          LET r1 == RunAfter(run, Has(o, "success") /\ Has(o, "user"), "me", o.code, 0)
          IN  /\ seen' = Heard(pc, o)
              /\ IF IsAuthError(o)
                 THEN /\ CallGuard("refresh", ai, "rt_meRefreshed")
                      /\ run' = [r1 EXCEPT !.refreshCalls = Min(@ + 1, ManyRefresh)]
                      /\ UNCHANGED rt
                 ELSE /\ TaskDone(r1)
                      /\ UNCHANGED g
    /\ op' = NoOp
    /\ UNCHANGED <<response, outcome, tmp, lb, mode, disk, cfg, ai, gres, tx, sig, sl,
                   accepted, lastCall>>

\* the refresh after an AUTH error of getMe returned or threw
RT_MeRefreshed ==
    /\ pc = "rt_meRefreshed"
    /\ Consume
    /\ IF gres.ok
       THEN /\ rt' = [rt EXCEPT !.cookie = gres.cookie]
            /\ pc' = "rt_me"
            /\ UNCHANGED run
       ELSE /\ RunEnds("threw")
            /\ UNCHANGED rt
    /\ UNCHANGED <<response, outcome, tmp, lb, mode, seen, disk, cfg, ai, g, tx, sig,
                   sl, accepted, op>>

\* the for loop of main: the next account, or "All accounts processed"
MainNext ==
    /\ pc = "main_next"
    /\ IF ai < Len(cfg.accounts)
       THEN StartRunTasks(ai + 1)
       ELSE /\ pc' = "done"
            /\ UNCHANGED <<ai, g, rt, run, op, seen>>
    /\ UNCHANGED <<response, outcome, tmp, lb, mode, disk, cfg, gres, tx, sig, sl,
                   accepted, lastCall>>

-----------------------------------------------------------------------------
(* sleepRandom with a timer per slice.  pc = "sleeping" awaits the timer   *)
(* of the running slice.                                                   *)

\* const chunk = 5000
chunk == 5000

\* obs: the resolution at which the arrival of a signal inside a slice is told
TickMs == 500

SliceOffsets(sleepTime) == {d \in 0..sleepTime : d % TickMs = 0}

\* obs: the time slept so far
Elapsed == sl.ms - sl.remaining

\* sleepRandom(minMs, maxMs, label, state) up to its first await, or through
\* to its return when it sleeps nothing
StartSleep(minMs, maxMs, withState, ret) ==
    \E ms \in randInt(minMs, maxMs) :
       IF (withState /\ sig.stopRequested) \/ ~(ms > 0)
       THEN /\ sl' = [NoSleep EXCEPT !.ms = ms, !.remaining = ms,
                                     !.withState = withState, !.ret = ret]
            /\ pc' = ret
       ELSE /\ sl' = [NoSleep EXCEPT !.ms = ms, !.remaining = ms,
                                     !.sleepTime = Min(chunk, ms),
                                     !.withState = withState, !.ret = ret]
            /\ pc' = "sleeping"

\* A mutant: the flag is not looked at between the slices.
SleepInterrupted_Never(withState, stopRequested) == FALSE

\* if (state && state.stopRequested) at the top of the while loop
SleepInterrupted(withState, stopRequested) == withState /\ stopRequested

\* the timer of a slice fires
SleepTimer ==
    /\ pc = "sleeping"
    /\ LET remaining == sl.remaining - sl.sleepTime
           s1 == [sl EXCEPT !.remaining = remaining]
       IN  IF remaining > 0 /\ ~SleepInterrupted(sl.withState, sig.stopRequested)
           THEN /\ sl' = [s1 EXCEPT !.sleepTime = Min(chunk, remaining)]
                /\ pc' = pc
           ELSE /\ sl' = [s1 EXCEPT !.sleepTime = 0]
                /\ pc' = sl.ret
    /\ UNCHANGED <<response, outcome, tmp, lb, mode, seen, disk, cfg, ai, g, gres, rt,
                   tx, sig, accepted, op, run, lastCall>>

-----------------------------------------------------------------------------
(* The SIGINT handler of runTradeXAllAccountsForever.  A handler runs      *)
(* while the program awaits something, never inside synchronous code.      *)

SyncSites ==
    {"boot", "rt_ensured", "rt_tasksRefreshed", "rt_completeRefreshed", "rt_meRefreshed",
     "main_next", "tx_ensured", "tx_createRefreshed", "tx_created", "bal_ensured",
     "bal_refreshed", "lb_ensured", "lb_refreshed", "harness_call"}

EndSites == {"done", "failed", "exited", "harness_slept"}

Awaiting == pc \notin SyncSites \cup EndSites

Sigint ==
    /\ sig.handler
    /\ Awaiting
    /\ IF sig.forceQuit
       THEN \* process.exit(0): what the process held in memory is gone
            /\ pc' = "exited"
            /\ g' = NoGuard
            /\ tx' = NoTx
            /\ op' = NoOp
            /\ UNCHANGED <<sig, sl>>
       ELSE IF sig.stopRequested
       THEN /\ sig' = [sig EXCEPT !.forceQuit = TRUE]
            /\ UNCHANGED <<pc, sl, g, tx, op>>
       ELSE /\ sig' = [sig EXCEPT !.stopRequested = TRUE]
            /\ pc' = pc
            /\ IF pc = "sleeping"
               THEN \E into \in SliceOffsets(sl.sleepTime) :
                       sl' = [sl EXCEPT !.stopAt = Elapsed + into]
               ELSE sl' = sl
            /\ UNCHANGED <<g, tx, op>>
    /\ UNCHANGED <<response, outcome, tmp, lb, mode, seen, disk, cfg, ai, gres, rt,
                   accepted, run, lastCall>>

-----------------------------------------------------------------------------
(* Mode 2: createOneTokenForAccount, showBalancesForAll and                *)
(* runTradeXAllAccountsForever.                                            *)

TRADEX_BETWEEN_TOKENS_MIN_MS == 315000
TRADEX_BETWEEN_TOKENS_MAX_MS == 330000
TRADEX_AFTER_PAIR_MIN_MS == 3600000
TRADEX_AFTER_PAIR_MAX_MS == 3660000

\* createOneTokenForAccount(cfg, i, state) up to the first await of the guard
StartCreate(i) ==
    /\ ai' = i
    /\ tx' = [tx EXCEPT !.cookie = cfg.accounts[i].cookie, !.attempt = 0, !.waitMs = 0]
    /\ CallGuard("ensure", i, "tx_ensured")

\* showBalancesForAll, turn i of its loop, up to the first await of the guard
StartBalance(i) ==
    /\ ai' = i
    /\ tx' = [tx EXCEPT !.cookie = cfg.accounts[i].cookie, !.attempt = 0, !.waitMs = 0]
    /\ CallGuard("ensure", i, "bal_ensured")

\* A mutant: the even cycles are taken for the first of their pair.
attemptInPair_Swapped(cycle) == IF cycle % 2 = 1 THEN 2 ELSE 1

\* const attemptInPair = (cycle % 2 === 1) ? 1 : 2
attemptInPair(cycle) == IF cycle % 2 = 1 THEN 1 ELSE 2

\* the bounds of the delay at the end of a cycle, by its place in the pair
CycleDelay(attempt) ==
    IF attempt = 1
    THEN [min |-> TRADEX_BETWEEN_TOKENS_MIN_MS, max |-> TRADEX_BETWEEN_TOKENS_MAX_MS]
    ELSE [min |-> TRADEX_AFTER_PAIR_MIN_MS, max |-> TRADEX_AFTER_PAIR_MAX_MS]

\* the top of while (!state.stopRequested) with cycle and pairNumber in t:
\* the loop is left, or a cycle starts with createOneTokenForAccount(cfg, 0)
LoopTop(t) ==
    IF sig.stopRequested
    THEN /\ pc' = "done"
         /\ tx' = t
         /\ UNCHANGED <<ai, g>>
    ELSE /\ t.cycle < MaxCycles
         /\ LET cycle == t.cycle + 1
                t2 == [t EXCEPT !.cycle = cycle,
                                !.pairNumber = IF attemptInPair(cycle) = 1 THEN @ + 1
                                               ELSE @]
            IN  /\ ai' = 1
                /\ tx' = [t2 EXCEPT !.cookie = cfg.accounts[1].cookie, !.attempt = 0,
                                    !.waitMs = 0]
                /\ CallGuard("ensure", 1, "tx_ensured")

\* promptMenu, answered "2": the handler is registered and the loop entered
MenuTradeX ==
    /\ pc = "menu"
    /\ mode' = "TRADEX"
    /\ sig' = [handler |-> TRUE, stopRequested |-> FALSE, forceQuit |-> FALSE]
    /\ LoopTop(NoTx)
    /\ UNCHANGED <<response, outcome, tmp, lb, seen, disk, cfg, gres, rt, sl, accepted,
                   op, run, lastCall>>

\* the end of a cycle, once showBalancesForAll returned: the delay by the
\* place in the pair (sleepRandom with the state, awaited as a whole here;
\* its slices are in SleepTimer), skipped when a stop is requested
AfterBalances ==
    IF sig.stopRequested
    THEN /\ pc' = "done"
         /\ sl' = sl
    ELSE LET d == CycleDelay(attemptInPair(tx.cycle))
         IN  \E ms \in randInt(d.min, d.max) :
                /\ sl' = [NoSleep EXCEPT !.ms = ms, !.remaining = ms,
                                         !.sleepTime = Min(chunk, ms),
                                         !.withState = TRUE, !.ret = "tx_sleep"]
                /\ pc' = "tx_sleep"

\* A mutant: the loop of the balance report does not look at the flag.
BalanceLoopStops_Never(stopRequested) == FALSE

\* if (state.stopRequested) return; at the top of the loop of showBalancesForAll
BalanceLoopStops(stopRequested) == stopRequested

\* the loop of showBalancesForAll goes on after account ai
BalNext ==
    IF ai < Len(cfg.accounts) /\ ~BalanceLoopStops(sig.stopRequested)
    THEN /\ StartBalance(ai + 1)
         /\ sl' = sl
    ELSE /\ AfterBalances
         /\ UNCHANGED <<ai, tx, g>>

\* A mutant: the error of the validation is logged and the creation goes on.
CreateProceeds_Always(ok) == TRUE

\* try { r = await ensureValidCookieForAccount(cfg, index) } catch (e) {
\* logErr(...); return; }: the creation goes on when the guard returned
CreateProceeds(ok) == ok

\* ensureValidCookieForAccount returned or threw in createOneTokenForAccount
TX_Ensured ==
    /\ pc = "tx_ensured"
    /\ Consume
    /\ IF CreateProceeds(gres.ok)
       THEN /\ tx' = [tx EXCEPT !.cookie = gres.cookie, !.attempt = 1]
            /\ op' = OpStarts("create", gres.cookie)
            /\ pc' = "tx_create"
       ELSE /\ pc' = "tx_created"
            /\ UNCHANGED <<tx, op>>
    /\ UNCHANGED <<response, outcome, tmp, lb, mode, seen, disk, cfg, ai, g, rt, sig,
                   sl, accepted, run>>

\* createTradeXToken answers
TX_Create ==
    /\ pc = "tx_create"
    /\ \E o \in NetOutcomes("token") :
          LET o1 == IF ~o.threw THEN op ELSE OpFailed(op, o.code, o.waitMs)
          IN  /\ seen' = Heard(pc, o)
              /\ IF ~o.threw
                 THEN /\ op' = OpReturned(op, Has(o, "success") /\ Has(o, "token"))
                      /\ pc' = "tx_created"
                      /\ UNCHANGED <<g, tx>>
                 ELSE IF sig.stopRequested
                 THEN /\ op' = [o1 EXCEPT !.result = "Stopped"]
                      /\ pc' = "tx_created"
                      /\ UNCHANGED <<g, tx>>
                 ELSE IF o.code = "AUTH"
                 THEN /\ op' = o1
                      /\ CallGuard("refresh", ai, "tx_createRefreshed")
                      /\ UNCHANGED tx
                 ELSE IF o.code = "RATE_LIMIT"
                 THEN /\ op' = o1
                      /\ tx' = [tx EXCEPT !.waitMs = IF o.waitMs # NoWait THEN o.waitMs
                                                     ELSE RATE_LIMIT_FALLBACK_WAIT_MS]
                      /\ pc' = "tx_wait429"
                      /\ UNCHANGED g
                 ELSE /\ op' = [o1 EXCEPT !.result = "Failure"]
                      /\ pc' = "tx_created"
                      /\ UNCHANGED <<g, tx>>
    /\ UNCHANGED <<response, outcome, tmp, lb, mode, disk, cfg, ai, gres, rt, sig, sl,
                   accepted, run, lastCall>>

\* sleep(waitMs) and the jitter are over: the next attempt, or the loop is left
TX_Wait429 ==
    /\ pc = "tx_wait429"
    /\ \E jitter \in randInt(500, 1500) :
          LET o1 == OpWaited(op, WaitAfter429(tx.waitMs, jitter), tx.waitMs)
          IN  IF BudgetLeft(tx.attempt)
              THEN /\ tx' = [tx EXCEPT !.attempt = @ + 1, !.waitMs = 0]
                   /\ op' = OpAgain(o1, tx.cookie)
                   /\ pc' = "tx_create"
              ELSE /\ tx' = [tx EXCEPT !.waitMs = 0]
                   /\ op' = [o1 EXCEPT !.result = "GaveUp"]
                   /\ pc' = "tx_created"
    /\ UNCHANGED <<response, outcome, tmp, lb, mode, seen, disk, cfg, ai, g, gres, rt,
                   sig, sl, accepted, run, lastCall>>

\* the refresh after an AUTH error of createTradeXToken returned or threw;
\* its error leaves runTradeXAllAccountsForever for the catch of main
TX_CreateRefreshed ==
    /\ pc = "tx_createRefreshed"
    /\ Consume
    /\ IF gres.ok
       THEN LET c == CookieAfterRefresh(tx.cookie, gres.cookie)
                o1 == OpRefreshed(op, gres.cookie)
                attempt == AttemptAfterRefresh(tx.attempt)
            IN  IF BudgetLeft(attempt)
                THEN /\ tx' = [tx EXCEPT !.cookie = c, !.attempt = attempt + 1]
                     /\ op' = OpAgain(o1, c)
                     /\ pc' = "tx_create"
                ELSE /\ tx' = [tx EXCEPT !.cookie = c, !.attempt = attempt]
                     /\ op' = [o1 EXCEPT !.result = "GaveUp"]
                     /\ pc' = "tx_created"
       ELSE /\ op' = [op EXCEPT !.result = "Threw"]
            /\ pc' = "failed"
            /\ UNCHANGED tx
    /\ UNCHANGED <<response, outcome, tmp, lb, mode, seen, disk, cfg, ai, g, rt, sig,
                   sl, accepted, run>>

\* createOneTokenForAccount returned: the for loop over the accounts, then
\* showBalancesForAll, each skipped when a stop is requested
TX_Created ==
    /\ pc = "tx_created"
    /\ op' = NoOp
    /\ IF sig.stopRequested
       THEN /\ pc' = "done"
            /\ UNCHANGED <<ai, tx, g>>
       ELSE IF ai < Len(cfg.accounts)
       THEN StartCreate(ai + 1)
       ELSE StartBalance(1)
    /\ UNCHANGED <<response, outcome, tmp, lb, mode, seen, disk, cfg, gres, rt, sig, sl,
                   accepted, run, lastCall>>

\* ensureValidCookieForAccount returned or threw in showBalancesForAll
BAL_Ensured ==
    /\ pc = "bal_ensured"
    /\ Consume
    /\ IF gres.ok
       THEN /\ tx' = [tx EXCEPT !.cookie = gres.cookie]
            /\ pc' = "bal_fetch"
            /\ UNCHANGED <<ai, g, sl>>
       ELSE BalNext
    /\ UNCHANGED <<response, outcome, tmp, lb, mode, seen, disk, cfg, rt, sig, accepted,
                   op, run>>

\* getTradeXBalance answers
BAL_Fetch ==
    /\ pc = "bal_fetch"
    /\ \E o \in NetOutcomes("balance") :
          /\ seen' = Heard(pc, o)
          /\ IF IsAuthError(o)
             THEN /\ CallGuard("refresh", ai, "bal_refreshed")
                  /\ UNCHANGED <<ai, tx, sl>>
             ELSE BalNext
    /\ UNCHANGED <<response, outcome, tmp, lb, mode, disk, cfg, gres, rt, sig, accepted,
                   op, run, lastCall>>

\* the refresh after an AUTH error of getTradeXBalance returned or threw;
\* its error leaves showBalancesForAll for the catch of main
BAL_Refreshed ==
    /\ pc = "bal_refreshed"
    /\ Consume
    /\ IF gres.ok
       THEN BalNext
       ELSE /\ pc' = "failed"
            /\ UNCHANGED <<ai, tx, g, sl>>
    /\ UNCHANGED <<response, outcome, tmp, lb, mode, seen, disk, cfg, rt, sig, accepted,
                   op, run>>

\* the delay of the cycle returned, slept through or cut short: the top of
\* the while loop
TX_Slept ==
    /\ pc = "tx_sleep"
    /\ LoopTop(tx)
    /\ sl' = NoSleep
    /\ UNCHANGED <<response, outcome, tmp, lb, mode, seen, disk, cfg, gres, rt, sig,
                   accepted, op, run, lastCall>>

-----------------------------------------------------------------------------
(* Mode 3: runLootboxForAccount and the LOOTBOX loop of main.              *)

\* LOOTBOX_INFO[id].price
LOOTBOX_PRICE == <<25, 60, 150>>

\* parseFloat, on the value tokens of the model: "100" and "0" are numbers,
\* nothing else is
parseFloat(v) ==
    IF v = "100" THEN Num(100)
    ELSE IF v = "0" THEN Num(0)
    ELSE NaN

\* const bal = parseFloat(balanceRes?.balance || 0): a missing or falsy
\* balance is 0
BalanceOf(o) ==
    LET v == IF o.json.isNull THEN Undefined ELSE o.json.at["balance"]
    IN  IF Truthy(v) THEN parseFloat(v) ELSE parseFloat("0")

\* a < b on numbers: NaN is less than nothing
LessThan(a, b) == ~a.nan /\ ~b.nan /\ a.n < b.n

\* A mutant: the balance is not compared with the price.
BalanceTooLow_NoGuard(o, price) == FALSE

\* if (bal < lb.price)
BalanceTooLow(o, price) == LessThan(BalanceOf(o), Num(price))

\* main calls runLootboxForAccount(cfg, i): up to the first await of the guard
StartLootbox(i) ==
    /\ ai' = i
    /\ lb' = NoLb
    /\ seen' = [seen EXCEPT !.before = IF i = 1 THEN <<>> ELSE Append(@, "returned")]
    /\ CallGuard("ensure", i, "lb_ensured")

\* runLootboxForAccount returned: i++, then the delay between the accounts
\* (sleepRandom(5000, 10000)) or "ALL ACCOUNTS FINISHED LOOTBOX"
LootboxReturns ==
    /\ pc' = IF ai < Len(cfg.accounts) THEN "lb_between" ELSE "done"
    /\ UNCHANGED <<ai, g>>

\* promptMenu, answered "3"
MenuLootbox ==
    /\ pc = "menu"
    /\ mode' = "LOOTBOX"
    /\ StartLootbox(1)
    /\ UNCHANGED <<response, outcome, tmp, disk, cfg, gres, rt, tx, sig, sl, accepted,
                   op, run, lastCall>>

\* let { cookie, me } = await ensureValidCookieForAccount(cfg, index); its
\* error leaves runLootboxForAccount and the loop for the catch of main
LB_Ensured ==
    /\ pc = "lb_ensured"
    /\ Consume
    /\ IF gres.ok
       THEN /\ lb' = [lb EXCEPT !.cookie = gres.cookie]
            /\ pc' = "lb_choose"
       ELSE /\ pc' = "failed"
            /\ UNCHANGED lb
    /\ UNCHANGED <<response, outcome, tmp, mode, seen, disk, cfg, ai, g, rt, tx, sig,
                   sl, accepted, op, run>>

\* "Enter choice (1/2/3): ", answered 1, 2 or 3
LB_Choose ==
    /\ pc = "lb_choose"
    /\ \E lootboxId \in 1..3 : lb' = [lb EXCEPT !.lootboxId = lootboxId]
    /\ pc' = "lb_mode"
    /\ UNCHANGED <<response, outcome, tmp, mode, seen, disk, cfg, ai, g, gres, rt, tx,
                   sig, sl, accepted, op, run, lastCall>>

\* answered anything else: the question is asked again
LB_ChooseInvalid ==
    /\ pc = "lb_choose"
    /\ UNCHANGED vars

\* "Enter choice (1/2): ", "2" is the repeat mode; then the loop is entered
\* and getTradeXBalance is sent
LB_Mode ==
    /\ pc = "lb_mode"
    /\ \E isRepeat \in BOOLEAN : lb' = [lb EXCEPT !.isRepeat = isRepeat]
    /\ pc' = "lb_balance"
    /\ UNCHANGED <<response, outcome, tmp, mode, seen, disk, cfg, ai, g, gres, rt, tx,
                   sig, sl, accepted, op, run, lastCall>>

\* getTradeXBalance answers
LB_Balance ==
    /\ pc = "lb_balance"
    /\ \E o \in NetOutcomes("balance") :
          /\ seen' = Heard(pc, o)
          /\ IF o.threw
             THEN IF o.code = "AUTH"
                  THEN /\ CallGuard("refresh", ai, "lb_refreshed")
                       /\ UNCHANGED ai
                  ELSE LootboxReturns
             ELSE IF BalanceTooLow(o, LOOTBOX_PRICE[lb.lootboxId])
                  THEN LootboxReturns
                  ELSE /\ pc' = "lb_open"
                       /\ UNCHANGED <<ai, g>>
          /\ lb' = IF o.threw THEN lb ELSE [lb EXCEPT !.bal = BalanceOf(o)]
    /\ UNCHANGED <<response, outcome, tmp, mode, disk, cfg, gres, rt, tx, sig, sl,
                   accepted, op, run, lastCall>>

\* A mutant: a rate-limited open leaves the loop like any other error.
OpenCatch_NoRetry(o) == IF o.code = "AUTH" THEN "refresh" ELSE "break"

\* the catch around openLootbox
OpenCatch(o) ==
    IF o.code = "AUTH" THEN "refresh"
    ELSE IF o.code = "RATE_LIMIT" THEN "wait"
    ELSE "break"

\* if (res?.success && res.prize) logOk(... p.type.toUpperCase() ...): with a
\* prize that has no type the log line throws a TypeError, after opened++;
\* the catch around openLootbox takes it (no code: logErr, break)
PrizeLogThrows(o) ==
    Has(o, "success") /\ Has(o, "prize") /\ o.json.at["prize"] = "{untyped}"

\* openLootbox answers
LB_Open ==
    /\ pc = "lb_open"
    /\ \E o \in NetOutcomes("open") :
          /\ seen' = Heard(pc, o)
          /\ IF ~o.threw
             THEN /\ lb' = [lb EXCEPT !.opened = @ + 1, !.limited = 0]
                  /\ IF ~lb.isRepeat \/ PrizeLogThrows(o)
                     THEN LootboxReturns
                     ELSE /\ lb.opened + 1 < MaxOpens
                          /\ pc' = "lb_delay"
                          /\ UNCHANGED <<ai, g>>
             ELSE IF OpenCatch(o) = "refresh"
             THEN /\ CallGuard("refresh", ai, "lb_refreshed")
                  /\ UNCHANGED <<ai, lb>>
             ELSE IF OpenCatch(o) = "wait"
             THEN \* await sleep(e.waitMs || 8000)
                  /\ lb' = [lb EXCEPT !.waitMs = IF o.waitMs # NoWait /\ o.waitMs # 0
                                                 THEN o.waitMs ELSE 8000,
                                    !.limited = Min(@ + 1, ManyLimited)]
                  /\ pc' = "lb_wait429"
                  /\ UNCHANGED <<ai, g>>
             ELSE /\ LootboxReturns
                  /\ UNCHANGED lb
    /\ UNCHANGED <<response, outcome, tmp, mode, disk, cfg, gres, rt, tx, sig, sl,
                   accepted, op, run, lastCall>>

\* the refresh after an AUTH error of getTradeXBalance or of openLootbox
\* returned: continue, at the top of the loop; or it threw, into the catch of
\* main
LB_Refreshed ==
    /\ pc = "lb_refreshed"
    /\ Consume
    /\ IF gres.ok
       THEN /\ lb' = [lb EXCEPT !.cookie = CookieAfterRefresh(lb.cookie, gres.cookie)]
            /\ pc' = "lb_balance"
       ELSE /\ pc' = "failed"
            /\ UNCHANGED lb
    /\ UNCHANGED <<response, outcome, tmp, mode, seen, disk, cfg, ai, g, rt, tx, sig,
                   sl, accepted, op, run>>

\* the wait after a rate-limited open is over: continue, at the top of the loop
LB_Wait429 ==
    /\ pc = "lb_wait429"
    /\ lb' = [lb EXCEPT !.waitMs = 0]
    /\ pc' = "lb_balance"
    /\ UNCHANGED <<response, outcome, tmp, mode, seen, disk, cfg, ai, g, gres, rt, tx,
                   sig, sl, accepted, op, run, lastCall>>

\* sleepRandom(8000, 14000, "Delay between opens") is over
LB_Delay ==
    /\ pc = "lb_delay"
    /\ pc' = "lb_balance"
    /\ UNCHANGED <<response, outcome, tmp, lb, mode, seen, disk, cfg, ai, g, gres, rt,
                   tx, sig, sl, accepted, op, run, lastCall>>

\* the delay between two accounts is over: runLootboxForAccount(cfg, i)
LB_Between ==
    /\ pc = "lb_between"
    /\ StartLootbox(ai + 1)
    /\ UNCHANGED <<response, outcome, tmp, mode, disk, cfg, gres, rt, tx, sig, sl,
                   accepted, op, run, lastCall>>

-----------------------------------------------------------------------------
(* The program.                                                            *)

Init ==
    /\ response = Resp(0, Hdr("absent", 0), <<>>)
    /\ outcome = Thrown("none", 0, NoWait)
    /\ disk \in FileContents
    /\ cfg = [accounts |-> <<>>]
    /\ pc = "boot"
    /\ ai = 0
    /\ g = NoGuard
    /\ gres = NoRes
    /\ rt = NoRt
    /\ tx = NoTx
    /\ sig = NoSig
    /\ sl = NoSleep
    /\ accepted = <<>>
    /\ op = NoOp
    /\ run = NoRun
    /\ lastCall = NoCall
    /\ tmp = NoFile
    /\ lb = NoLb
    /\ mode = ""
    /\ seen = NoSeen

Next ==
    \/ Boot \/ AddAccount \/ AppendAsk \/ MenuInvalid \/ MenuTasks \/ MenuTradeX
    \/ GuardAnswer \/ GuardGetMe
    \/ RT_Ensured \/ RT_GetTasks \/ RT_TasksRefreshed \/ RT_Delay \/ RT_Complete
    \/ RT_Wait429 \/ RT_CompleteRefreshed \/ RT_Me \/ RT_MeRefreshed \/ MainNext
    \/ TX_Ensured \/ TX_Create \/ TX_Wait429 \/ TX_CreateRefreshed \/ TX_Created
    \/ BAL_Ensured \/ BAL_Fetch \/ BAL_Refreshed \/ TX_Slept
    \/ MenuLootbox \/ LB_Ensured \/ LB_Choose \/ LB_ChooseInvalid \/ LB_Mode
    \/ LB_Balance \/ LB_Open \/ LB_Refreshed \/ LB_Wait429 \/ LB_Delay \/ LB_Between
    \/ Sigint

Spec == Init /\ [][Next]_vars

(* The token-pair mode on its own, with the fairness its liveness rests    *)
(* on: the startup, then menu choice 2.  Every awaited thing (the answer   *)
(* of a remote call, the operator's answer to a prompt, a timer) arrives   *)
(* in the end, and the continuation that waits for it runs; signals come   *)
(* when they come, or never.                                               *)

TradeXRun ==
    \/ Boot \/ AddAccount \/ AppendAsk \/ MenuTradeX
    \/ GuardAnswer \/ GuardGetMe
    \/ TX_Ensured \/ TX_Create \/ TX_Wait429 \/ TX_CreateRefreshed \/ TX_Created
    \/ BAL_Ensured \/ BAL_Fetch \/ BAL_Refreshed \/ TX_Slept

NextTradeX == TradeXRun \/ Sigint

SpecTradeX == Init /\ [][NextTradeX]_vars /\ WF_vars(TradeXRun)

(* sleepRandom on its own: the calls the program makes with the state of   *)
(* the token-pair mode, calls without it, and a call of 20 s.              *)

SleepCalls ==
    {[min |-> 500, max |-> 1500, withState |-> FALSE],
     [min |-> 20000, max |-> 20000, withState |-> FALSE],
     [min |-> 20000, max |-> 20000, withState |-> TRUE],
     [min |-> TRADEX_BETWEEN_TOKENS_MIN_MS, max |-> TRADEX_BETWEEN_TOKENS_MAX_MS,
      withState |-> TRUE],
     [min |-> TRADEX_AFTER_PAIR_MIN_MS, max |-> TRADEX_AFTER_PAIR_MAX_MS,
      withState |-> TRUE]}

SleepCall ==
    /\ pc = "harness_call"
    /\ \E c \in SleepCalls : StartSleep(c.min, c.max, c.withState, "harness_slept")
    /\ UNCHANGED <<response, outcome, tmp, lb, mode, seen, disk, cfg, ai, g, gres, rt,
                   tx, sig, accepted, op, run, lastCall>>

InitSleep ==
    /\ response = Resp(0, Hdr("absent", 0), <<>>)
    /\ outcome = Thrown("none", 0, NoWait)
    /\ pc = "harness_call"
    /\ sig \in [handler : {TRUE}, stopRequested : BOOLEAN, forceQuit : {FALSE}]
    /\ sl = NoSleep
    /\ disk = saveConfig([accounts |-> <<>>])
    /\ cfg = [accounts |-> <<>>]
    /\ ai = 0
    /\ g = NoGuard
    /\ gres = NoRes
    /\ rt = NoRt
    /\ tx = NoTx
    /\ accepted = <<>>
    /\ op = NoOp
    /\ run = NoRun
    /\ lastCall = NoCall
    /\ tmp = NoFile
    /\ lb = NoLb
    /\ mode = ""
    /\ seen = NoSeen

NextSleep == SleepCall \/ SleepTimer \/ Sigint

SpecSleep == InitSleep /\ [][NextSleep]_vars

-----------------------------------------------------------------------------
(* saveConfig on its own, one file operation at a time, with a crash of    *)
(* the process possible before and after each of them.  writeFileSync      *)
(* opens the file (it is empty then), writes, and may be cut short with a  *)
(* part of the text written; renameSync replaces the target in one step.   *)

\* a file just opened for writing, and a file with a part of the text
Truncated == [exists |-> TRUE, parses |-> FALSE, cookie |-> <<"#empty">>, accounts |-> <<>>]
PartlyWritten == [exists |-> TRUE, parses |-> FALSE, cookie |-> <<"#part">>, accounts |-> <<>>]

\* A mutant: the text is written to filePath itself, no temporary file.
atomicWriteJson_InPlace(step, files, obj) ==
    IF step = "open" THEN [files EXCEPT !.disk = Truncated]
    ELSE IF step = "part" THEN [files EXCEPT !.disk = PartlyWritten]
    ELSE IF step = "write" THEN [files EXCEPT !.disk = saveConfig(obj)]
    ELSE files

\* atomicWriteJson(CONFIG_PATH, obj), by file operation: files is
\* [disk |-> the file at filePath, tmp |-> the file at tmpPath]
atomicWriteJson(step, files, obj) ==
    IF step = "open" THEN [files EXCEPT !.tmp = Truncated]
    ELSE IF step = "part" THEN [files EXCEPT !.tmp = PartlyWritten]
    ELSE IF step = "write" THEN [files EXCEPT !.tmp = saveConfig(obj)]
    ELSE [disk |-> files.tmp, tmp |-> NoFile]

\* the configs that are saved: up to MaxAccounts accounts
SavedCookies == {Empty, Cred1, Cred2}
Configs == [accounts : SeqsUpTo([cookie : SavedCookies], MaxAccounts)]

\* one file operation of the running save
SaveStep(step, from, to) ==
    /\ pc = from
    /\ LET files == atomicWriteJson(step, [disk |-> disk, tmp |-> tmp], cfg)
       IN  /\ disk' = files.disk
           /\ tmp' = files.tmp
    /\ pc' = to
    /\ UNCHANGED <<response, outcome, lb, mode, seen, cfg, ai, g, gres, rt, tx, sig, sl,
                   accepted, op, run, lastCall>>

\* fs.writeFileSync(tmpPath, ...): open, write a part, write all
SaveOpen == SaveStep("open", "save_call", "save_opened")
SavePart == SaveStep("part", "save_opened", "save_writing")
SaveWrite == pc \in {"save_opened", "save_writing"} /\ SaveStep("write", pc, "save_written")

\* fs.renameSync(tmpPath, filePath)
SaveRename == SaveStep("rename", "save_written", "saved")

\* setAccountCookie(cfg, index, newCookie): the cookie is set, saveConfig is called
SaveAgain ==
    /\ pc = "saved"
    /\ \E index \in 1..Len(cfg.accounts), newCookie \in {Cred1, Cred2} :
          cfg' = [cfg EXCEPT !.accounts[index].cookie = trim(newCookie)]
    /\ seen' = [seen EXCEPT !.prev = disk]
    /\ pc' = "save_call"
    /\ UNCHANGED <<response, outcome, tmp, lb, mode, disk, ai, g, gres, rt, tx, sig, sl,
                   accepted, op, run, lastCall>>

\* the process dies
Crash ==
    /\ pc \in {"save_call", "save_opened", "save_writing", "save_written", "saved"}
    /\ pc' = "crashed"
    /\ UNCHANGED <<response, outcome, tmp, lb, mode, seen, disk, cfg, ai, g, gres, rt,
                   tx, sig, sl, accepted, op, run, lastCall>>

InitPersist ==
    /\ response = Resp(0, Hdr("absent", 0), <<>>)
    /\ outcome = Thrown("none", 0, NoWait)
    /\ disk \in FileContents
    /\ tmp \in {NoFile, PartlyWritten}
    /\ cfg \in Configs
    /\ seen = [NoSeen EXCEPT !.prev = disk]
    /\ pc = "save_call"
    /\ lb = NoLb
    /\ mode = ""
    /\ ai = 0
    /\ g = NoGuard
    /\ gres = NoRes
    /\ rt = NoRt
    /\ tx = NoTx
    /\ sig = NoSig
    /\ sl = NoSleep
    /\ accepted = <<>>
    /\ op = NoOp
    /\ run = NoRun
    /\ lastCall = NoCall

NextPersist == SaveOpen \/ SavePart \/ SaveWrite \/ SaveRename \/ SaveAgain \/ Crash

SpecPersist == InitPersist /\ [][NextPersist]_vars

-----------------------------------------------------------------------------
(* requestJson on its own: every status with every kind of body.           *)

Statuses == {200, 204, 302, 400, 401, 403, 404, 429, 500}

Texts ==
    {<<>>,
     <<"null">>,
     <<"{", "success", "true", "user", "{user}", "}">>,
     <<"{", "success", "false", "}">>,
     <<"{", "message", "Session expired", "}">>,
     <<"{", "error", "Unauthorized", "}">>,
     <<"{", "message", "Bad request", "}">>,
     <<"{", "message", "Bad request", "detail", "please login", "}">>,
     <<"{", "message", "", "error", "Forbidden", "}">>,
     <<"{", "message", "", "detail", "please login", "}">>,
     <<"{", "detail", "invalid cookie", "}">>,
     <<"{", "message", "Session expired">>,
     <<"<html>", "Bad gateway">>,
     <<"<html>", "Session expired">>}

Responses == [status : Statuses, retryAfter : RetryAfterValues, text : Texts]

NoOutcome == Thrown("none", 0, NoWait)

\* fetch resolves with a response and requestJson classifies it
Fetch ==
    /\ pc = "harness_fetch"
    /\ outcome = NoOutcome
    /\ outcome' = requestJson(response)
    /\ UNCHANGED <<response, tmp, lb, mode, seen, disk, cfg, pc, ai, g, gres, rt, tx,
                   sig, sl, accepted, op, run, lastCall>>

Idle ==
    /\ disk = saveConfig([accounts |-> <<>>])
    /\ cfg = [accounts |-> <<>>]
    /\ ai = 0
    /\ g = NoGuard
    /\ gres = NoRes
    /\ rt = NoRt
    /\ tx = NoTx
    /\ accepted = <<>>
    /\ op = NoOp
    /\ run = NoRun
    /\ lastCall = NoCall
    /\ tmp = NoFile
    /\ lb = NoLb
    /\ mode = ""
    /\ seen = NoSeen

InitTransport ==
    /\ response \in Responses
    /\ outcome = NoOutcome
    /\ pc = "harness_fetch"
    /\ sig = NoSig
    /\ sl = NoSleep
    /\ Idle

NextTransport == Fetch

SpecTransport == InitTransport /\ [][NextTransport]_vars

-----------------------------------------------------------------------------
(* C1: requestJson ends RateLimited (code RATE_LIMIT) for every response   *)
(* of status 429, whatever its body and Retry-After header are; it is      *)
(* never AuthInvalid, Failure or Ok.                                       *)
C1_Status429IsRateLimited ==
    (outcome # NoOutcome /\ response.status = 429) =>
        /\ Variant(outcome) = "RateLimited"
        /\ outcome.threw /\ outcome.code = "RATE_LIMIT"
        /\ outcome.waitMs >= 1000

\* a 429 whose body does not parse and carries an auth keyword was classified
C1_Witness ==
    /\ outcome # NoOutcome
    /\ response.status = 429
    /\ response.text = <<"<html>", "Session expired">>
    /\ outcome.code = "RATE_LIMIT"

(* C2: requestJson ends AuthInvalid (code AUTH) for every response of      *)
(* status 401 or 403: with a body that parses, with an empty body, with    *)
(* one that does not parse, and whatever the body's text says.             *)
C2_Status401403IsAuthInvalid ==
    (outcome # NoOutcome /\ response.status \in {401, 403}) =>
        /\ Variant(outcome) = "AuthInvalid"
        /\ outcome.threw /\ outcome.code = "AUTH"
        /\ outcome.status = response.status

\* a 403 with an empty body, whose text matches nothing, was classified AUTH
C2_Witness ==
    /\ outcome # NoOutcome
    /\ response.status = 403
    /\ response.text = <<>>
    /\ outcome.code = "AUTH"

\* one of the two retry-wrapped operations: a task completion, a token creation
Wrapped == op.name \in {"complete", "create"}

\* the first invocation ended AUTH, the refresh returned, and the second
\* invocation returned with success; nothing else failed
AuthOnceThenOk ==
    /\ Wrapped
    /\ op.inv = 2 /\ op.auth = 1 /\ op.rl = 0
    /\ op.returned = "Ok"

(* C3 (as amended): in the retry loop around a task completion or a token  *)
(* creation, when the operation ends AUTH once and then returns Ok, the    *)
(* loop ends with the Ok result and the second invocation is made with     *)
(* the cookie that refreshCookieForAccount returned, which is the stored   *)
(* cookie of the account by then.                                          *)
C3_SecondCallUsesRefreshed ==
    AuthOnceThenOk =>
        /\ op.result = "Ok"
        /\ pc \in {"rt_me", "tx_created"}
        /\ op.refreshed # NoCred
        /\ op.cred2 = op.refreshed
        /\ op.cred2 = cfg.accounts[ai].cookie

\* a token creation ended AUTH, then Ok with another cookie
C3_Witness ==
    /\ AuthOnceThenOk
    /\ op.name = "create"
    /\ op.cred1 = Cred1
    /\ op.cred2 = Cred2
    /\ op.result = "Ok"

(* C3 as stated: the cookie of the second invocation always differs from   *)
(* the cookie of the first.                                                *)
C3_SecondCredentialDiffers ==
    AuthOnceThenOk => op.cred2 # op.cred1

\* the loop was left after invocations that all ended RATE_LIMIT with a hint
\* of 2000 ms
AlwaysRateLimited ==
    /\ Wrapped
    /\ op.hinted /\ op.rl >= 1
    /\ op.result # ""

ThreeAttemptsThenGiveUp ==
    /\ op.result = "GaveUp"
    /\ op.inv = RATE_LIMIT_MAX_RETRY
    /\ op.rl = RATE_LIMIT_MAX_RETRY
    /\ op.waits = RATE_LIMIT_MAX_RETRY
    /\ op.wait >= RATE_LIMIT_MAX_RETRY * 2000

(* C4 (as amended): when every invocation of the operation ends            *)
(* RATE_LIMIT with a hint of 2000 ms, the operation is never invoked more  *)
(* than RATE_LIMIT_MAX_RETRY = 3 times; the loop gives up after exactly 3  *)
(* invocations, each followed by a wait of at least 2000 ms (6000 ms in    *)
(* all), unless it is the loop of a token creation and a stop was          *)
(* requested when an invocation failed: then it returns at once, without   *)
(* the wait and without the invocations that are left.                     *)
C4_ThreeAttemptsUnlessStopped ==
    /\ (Wrapped /\ op.hinted) => op.inv <= RATE_LIMIT_MAX_RETRY
    /\ AlwaysRateLimited =>
          \/ ThreeAttemptsThenGiveUp
          \/ /\ op.name = "create"
             /\ op.result = "Stopped"
             /\ sig.stopRequested
             /\ op.waits = op.rl - 1

\* a task completion was given up after three rate-limited invocations
C4_Witness ==
    /\ AlwaysRateLimited
    /\ op.name = "complete"
    /\ ThreeAttemptsThenGiveUp
    /\ pc = "rt_me"

(* C4 as stated: the loop always makes the 3 invocations, each followed by *)
(* its wait, before it gives up.                                           *)
C4_AlwaysThreeAttempts ==
    AlwaysRateLimited => ThreeAttemptsThenGiveUp

\* sleepRandom returned from a call with the state, and the flag was set
\* while it slept
StoppedWhileAsleep ==
    /\ pc = "harness_slept"
    /\ sl.withState
    /\ sl.stopAt # NoWait

(* C5: when the flag is set while sleepRandom sleeps with the state, it    *)
(* returns at most one slice (5000 ms) after the moment the flag was set,  *)
(* and before the whole delay when more than a slice of it was left: with  *)
(* a delay of 20000 ms and the flag set at 7000 ms, no later than 12000.   *)
C5_ReturnsWithinOneSlice ==
    StoppedWhileAsleep =>
        /\ Elapsed >= sl.stopAt
        /\ Elapsed - sl.stopAt <= chunk
        /\ Elapsed <= sl.ms
        /\ (sl.stopAt + chunk < sl.ms) => Elapsed < sl.ms
        /\ (sl.ms = 20000 /\ sl.stopAt = 7000) => Elapsed <= 12000

\* a delay of 20000 ms, the flag set at 7000 ms, the return at 10000 ms
C5_Witness ==
    /\ StoppedWhileAsleep
    /\ sl.ms = 20000
    /\ sl.stopAt = 7000
    /\ Elapsed = 10000

\* ensureValidCookieForAccount ended for the account of the call before it,
\* which was an ensure call on a stored cookie that getMe accepted, and getMe
\* accepted the cookie again
SecondEnsure ==
    /\ lastCall.hit
    /\ gres.fn = "ensure"
    /\ gres.index = lastCall.index
    /\ gres.check1 = "accepted"

(* C6: ensureValidCookieForAccount called twice in succession for an       *)
(* account whose stored cookie is not empty and is accepted by getMe       *)
(* returns that cookie both times, leaves it stored in memory and in the   *)
(* file, and prompts the operator in neither call.                         *)
C6_EnsureIdempotent ==
    /\ lastCall.hit =>
          /\ lastCall.cookie = lastCall.start
          /\ lastCall.prompts = 0
    /\ SecondEnsure =>
          /\ gres.ok
          /\ gres.start = lastCall.start
          /\ gres.cookie = lastCall.start
          /\ gres.prompts = 0
          /\ gres.checks = 1
          /\ cfg.accounts[gres.index].cookie = lastCall.start
          /\ disk.accounts[gres.index] = lastCall.start

\* the second of two ensure calls returned the stored cookie c=1
C6_Witness ==
    /\ SecondEnsure
    /\ gres.ok
    /\ gres.cookie = Cred1
    /\ pc = "bal_ensured"

(* C7: when ensureValidCookieForAccount or refreshCookieForAccount returns *)
(* for account i, the cookie it returns is the cookie of account i in      *)
(* memory and in the file; and for an account without a cookie, when the   *)
(* answer to the first prompt passes the identity check, that prompt is    *)
(* the only one and the answer (c=1, say) is stored and returned.          *)
C7_WriteThrough ==
    /\ (gres.fn # "" /\ gres.ok) =>
          /\ gres.cookie # Empty
          /\ cfg.accounts[gres.index].cookie = gres.cookie
          /\ disk.exists /\ disk.parses
          /\ disk.accounts[gres.index] = gres.cookie
    /\ (gres.fn = "ensure" /\ gres.start = Empty /\ gres.i = 1
            /\ gres.check1 = "accepted") =>
          /\ gres.ok
          /\ gres.prompts = 1
          /\ gres.checks = 1

\* no cookie stored, one prompt answered c=1, accepted: c=1 is in the file
C7_Witness ==
    /\ gres.fn = "ensure" /\ gres.ok
    /\ gres.start = Empty
    /\ gres.prompts = 1
    /\ gres.cookie = Cred1
    /\ disk.accounts[gres.index] = Cred1

\* the run of an account ended; the completion of task 2 of 3 was the only
\* call to fail, with AUTH, and succeeded when it was made again
SecondTaskAuthOnce ==
    /\ pc = "main_next"
    /\ Len(rt.pending) = 3
    /\ run.dev = "authThenOk"
    /\ run.devAt = 2

(* C8: in a run of runTasksForAccount with 3 pending tasks where the       *)
(* completion of task 2 ends AUTH once and then succeeds, and every other  *)
(* call succeeds, the 3 tasks are processed in order (completion, then     *)
(* identity refresh) and refreshCookieForAccount is called exactly once.   *)
C8_AllProcessedOneRefresh ==
    SecondTaskAuthOnce =>
        /\ run.ended = "returned"
        /\ run.processed = rt.pending
        /\ run.refreshCalls = 1

\* such a run, over the tasks 1, 2 and 3 of the listing
C8_Witness ==
    /\ SecondTaskAuthOnce
    /\ rt.pending = <<1, 2, 3>>
    /\ run.processed = <<1, 2, 3>>
    /\ run.refreshCalls = 1

\* a call of the guard failed
GuardFailed == gres.fn # "" /\ ~gres.ok

(* C9 (as amended): a call of ensureValidCookieForAccount or of            *)
(* refreshCookieForAccount issues at most AUTH_MAX_RETRY = 3 prompts and   *)
(* at most 3 identity checks; when it fails, it fails either with the      *)
(* error of the exhausted attempts, after 3 turns that each ended with an  *)
(* empty answer or an AUTH error, or at once with the error of an identity *)
(* check that ended otherwise (RATE_LIMIT, another failure, a payload      *)
(* without success and user).                                              *)
C9_GuardBounded ==
    /\ g.prompts <= AUTH_MAX_RETRY /\ g.checks <= AUTH_MAX_RETRY
    /\ g.i <= AUTH_MAX_RETRY
    /\ gres.prompts <= AUTH_MAX_RETRY /\ gres.checks <= AUTH_MAX_RETRY
    /\ GuardFailed =>
          \/ gres.err = "EXHAUSTED" /\ gres.i = AUTH_MAX_RETRY + 1
          \/ /\ gres.err \in {"RATE_LIMIT", "FAILURE", "INVALID_ME"}
             /\ gres.i <= AUTH_MAX_RETRY
             /\ gres.checks >= 1

\* a refresh gave up after 3 prompts and 3 rejected cookies
C9_Witness ==
    /\ GuardFailed
    /\ gres.fn = "refresh"
    /\ gres.err = "EXHAUSTED"
    /\ gres.prompts = AUTH_MAX_RETRY
    /\ gres.checks = AUTH_MAX_RETRY

(* C9 as stated: a call in which no cookie was validated fails with the    *)
(* error of the exhausted attempts.                                        *)
C9_FailsOnlyExhausted ==
    GuardFailed => gres.err = "EXHAUSTED"

(* C10 (as amended): a cookie that the guard stored for an account (in     *)
(* setAccountCookie) is not empty, was accepted by getMe in that call and  *)
(* is the cookie of the account in the file; a cookie loaded from the file *)
(* or entered when the account was created is stored unchecked until the   *)
(* guard is called for the account.                                        *)
C10_GuardStoresAccepted ==
    /\ Len(accepted) = Len(cfg.accounts)
    /\ \A i \in 1..Len(cfg.accounts) :
          /\ accepted[i].byGuard =>
                /\ accepted[i].ok
                /\ cfg.accounts[i].cookie # Empty
                /\ disk.accounts[i] = cfg.accounts[i].cookie
          /\ ~accepted[i].byGuard => ~accepted[i].ok

\* the guard stored c=2 for an account, after getMe accepted it
C10_Witness ==
    \E i \in 1..Len(cfg.accounts) :
       /\ accepted[i].byGuard /\ accepted[i].ok
       /\ cfg.accounts[i].cookie = Cred2

(* C10 as stated: the stored cookie of every account is empty or was       *)
(* accepted by getMe since it was stored.                                  *)
C10_StoredIsEmptyOrAccepted ==
    \A i \in 1..Len(cfg.accounts) :
       cfg.accounts[i].cookie = Empty \/ accepted[i].ok

(* C11: in the TASKS loop of main, runTasksForAccount is invoked for       *)
(* account i once the runs of the accounts before it ended, whether they   *)
(* returned or threw; an error of a run never reaches the catch at the end *)
(* of main, and the loop ends ("All accounts processed") only after the    *)
(* run of the last account.                                                *)
C11_EveryAccountAttempted ==
    mode = "TASKS" =>
        /\ pc # "failed"
        /\ ai >= 1
        /\ ai <= Len(cfg.accounts)
        /\ Len(seen.before) = ai - 1
        /\ \A k \in 1..Len(seen.before) : seen.before[k] \in {"returned", "threw"}
        /\ pc = "done" => (ai = Len(cfg.accounts) /\ run.ended \in {"returned", "threw"})

\* the run of the first of two accounts threw, the second was run to its end
C11_Witness ==
    /\ mode = "TASKS"
    /\ pc = "done"
    /\ Len(cfg.accounts) = 2
    /\ seen.before = <<"threw">>
    /\ run.ended = "returned"
    /\ run.processed # <<>>

(* C12 as stated: in the LOOTBOX loop of main, an error of                 *)
(* runLootboxForAccount for one account does not keep the accounts after   *)
(* it from being run: the program ends only after the run of the last      *)
(* account.                                                                *)
C12_LootboxRunsEveryAccount ==
    (mode = "LOOTBOX" /\ pc \in {"done", "failed"}) => ai = Len(cfg.accounts)

(* C13 as stated: the cycle loop of runTradeXAllAccountsForever is left    *)
(* only when the interrupt handler has set the cancellation flag.          *)
C13_LeftOnlyOnCancellation ==
    (mode = "TRADEX" /\ pc \in {"done", "failed", "exited"}) => sig.stopRequested

(* C14 as stated: in token-pair mode a second interrupt signal that        *)
(* arrives while the first is pending terminates the process at once.      *)
C14_SecondSignalTerminates ==
    (mode = "TRADEX" /\ sig.stopRequested /\ sig.forceQuit) => pc = "exited"

(* C15: with a crash possible before, during and after each file operation *)
(* of saveConfig, the file at CONFIG_PATH is at every moment the complete  *)
(* file it was before the save or the complete new one                     *)
(* (JSON.stringify(cfg)), never a part of it; once the save returned, it   *)
(* is the new one and the temporary file is gone.                          *)
C15_OldOrNewContent ==
    /\ pc \in {"save_call", "save_opened", "save_writing", "save_written", "saved",
               "crashed"} =>
          \/ disk = seen.prev
          \/ disk = saveConfig(cfg)
    /\ pc \in {"save_call", "save_opened", "save_writing", "save_written"} =>
          disk = seen.prev
    /\ pc = "saved" => (disk = saveConfig(cfg) /\ tmp = NoFile)

\* the process died between the write and the rename: the new text is in the
\* temporary file, config.json is the file it was, with other accounts
C15_Witness ==
    /\ pc = "crashed"
    /\ tmp = saveConfig(cfg)
    /\ disk = seen.prev
    /\ disk.exists /\ disk.parses
    /\ disk # saveConfig(cfg)

\* this step is the answer of the remote call awaited at site, and
\* requestJson made variant v of it
Answer(site, v) ==
    /\ pc = site
    /\ site = "guard" => g.at = "getMe"
    /\ sig' = sig
    /\ pc' # "exited"
    /\ <<pc', g'>> # <<pc, g>>
    /\ seen'.net = [at |-> site, v |-> v]

WaitSites == {"rt_wait429", "tx_wait429", "lb_wait429"}

\* the sites that await a remote call
CallSites ==
    {"guard", "rt_getTasks", "rt_complete", "rt_me", "tx_create", "bal_fetch",
     "lb_balance", "lb_open"}

UnparseableTexts ==
    {<<"{", "message", "Session expired">>,
     <<"<html>", "Bad gateway">>,
     <<"<html>", "Session expired">>}

\* the texts in which the auth pattern matches what it is applied to: the
\* message field, else the error field, else (both missing or empty) the raw
\* text
AuthLookingTexts ==
    {<<"{", "message", "Session expired", "}">>,
     <<"{", "error", "Unauthorized", "}">>,
     <<"{", "message", "", "error", "Forbidden", "}">>,
     <<"{", "message", "", "detail", "please login", "}">>,
     <<"{", "detail", "invalid cookie", "}">>,
     <<"{", "message", "Session expired">>,
     <<"<html>", "Session expired">>}

\* the ordered rules, applied to the response that was handed to requestJson
ExpectedVariant ==
    LET authLike == response.status \in {401, 403} \/ response.text \in AuthLookingTexts
    IN  IF response.text \in UnparseableTexts
        THEN IF authLike THEN "AuthInvalid" ELSE "Failure"
        ELSE IF response.status < 200 \/ response.status > 299
        THEN IF authLike THEN "AuthInvalid" ELSE "Failure"
        ELSE "Ok"

(* C17: for every response of a status other than 429, requestJson ends in *)
(* exactly the variant the ordered rules give: a body that does not parse  *)
(* is AuthInvalid when the status is 401/403 or the raw text matches the   *)
(* auth pattern, else Failure; a body that parses (or is empty) with a     *)
(* status outside 2xx is AuthInvalid when the status is 401/403 or the     *)
(* message/error field (the raw text without them) matches, else Failure;  *)
(* a body that parses (or is empty) with a 2xx status is Ok.  Ok never     *)
(* results for a status outside 2xx, and RateLimited never here.           *)
C17_ClassificationFollowsRules ==
    (outcome # NoOutcome /\ response.status # 429) =>
        /\ Variant(outcome) = ExpectedVariant
        /\ Variant(outcome) \in {"Ok", "AuthInvalid", "Failure"}
        /\ Variant(outcome) = "Ok" <=> ~outcome.threw
        /\ Variant(outcome) = "Ok" => (response.status >= 200 /\ response.status <= 299)
        /\ outcome.threw => outcome.code \in {"AUTH", ""}

\* a 400 whose message does not match, though another field of the body
\* would: Failure
C17_Witness ==
    /\ outcome # NoOutcome
    /\ response.status = 400
    /\ response.text = <<"{", "message", "Bad request", "detail", "please login", "}">>
    /\ Variant(outcome) = "Failure"

NonAuthErrors == {"RATE_LIMIT", "FAILURE", "INVALID_ME"}

\* the identity checks of the running guard call that were answered
ChecksAnswered == IF g.at = "getMe" THEN g.checks - 1 ELSE g.checks

(* C18: when an identity check of ensureValidCookieForAccount ends in      *)
(* anything but Ok or AuthInvalid (RateLimited, a Failure, a payload       *)
(* without success and user), the call fails at once with that error:      *)
(* that check is its last, no prompt follows it, and the stored cookie of  *)
(* the account, in memory and in the file, is what it was when the call    *)
(* began.  A call that goes on after a check goes on after AuthInvalid.    *)
C18_EnsureFailsAtOnce ==
    /\ (gres.fn = "ensure" /\ gres.err \in NonAuthErrors) =>
          /\ ~gres.ok
          /\ g = NoGuard
          /\ pc \in {"rt_ensured", "tx_ensured", "bal_ensured", "lb_ensured"}
          /\ seen.net.at = "guard"
          /\ seen.net.v = (IF gres.err = "RATE_LIMIT" THEN "RateLimited"
                           ELSE IF gres.err = "FAILURE" THEN "Failure" ELSE "Ok")
          /\ gres.checks >= 1
          /\ gres.checks <= gres.i
          /\ cfg.accounts[gres.index].cookie = gres.start
          /\ disk.accounts[gres.index] = gres.start
    /\ (gres.fn = "ensure" /\ gres.check1 = "other") =>
          (gres.err \in NonAuthErrors /\ gres.checks = 1)
    /\ (g.fn = "ensure" /\ ChecksAnswered >= 1) =>
          (g.check1 = "auth" /\ seen.net = [at |-> "guard", v |-> "AuthInvalid"])

\* the check of the stored cookie c=1 was rate limited: the call failed
\* without a prompt, c=1 is still stored
C18_Witness ==
    /\ gres.fn = "ensure"
    /\ gres.err = "RATE_LIMIT"
    /\ gres.start = Cred1
    /\ gres.checks = 1
    /\ gres.prompts = 0
    /\ cfg.accounts[gres.index].cookie = Cred1

\* the sites that await a protected call made by a mode runner
RunnerCallSites == CallSites \ {"guard"}

\* the cookie sent with the call that is awaited
SentCookie ==
    IF pc \in {"rt_getTasks", "rt_complete", "rt_me"} THEN rt.cookie
    ELSE IF pc \in {"tx_create", "bal_fetch"} THEN tx.cookie
    ELSE lb.cookie

\* the cookie of the caller of the running refresh, which a protected call
\* was just rejected with
RejectedCookie ==
    IF g.ret \in RtSites THEN rt.cookie
    ELSE IF g.ret = "lb_refreshed" THEN lb.cookie
    ELSE tx.cookie

Refreshing == pc = "guard" /\ g.fn = "refresh" /\ g.at = "getMe"

(* C19 (as amended): a protected call of a mode runner is never awaited    *)
(* while the last remote answer is AuthInvalid: after a rejection the next *)
(* protected call is made only after the guard returned, and with the      *)
(* cookie it returned, which is the stored cookie of the account.          *)
(* refreshCookieForAccount sends to the identity check only the answer to  *)
(* a prompt of the same turn of the same call; it does not compare the     *)
(* answer with the rejected cookie.                                        *)
C19_ResentOnlyThroughGuard ==
    /\ pc \in RunnerCallSites =>
          /\ seen.net.v # "AuthInvalid"
          /\ SentCookie # Empty
          /\ SentCookie = cfg.accounts[ai].cookie
          /\ accepted[ai].byGuard /\ accepted[ai].ok
    /\ Refreshing =>
          /\ g.ans = g.cookie
          /\ g.cookie # Empty
          /\ g.prompts = g.i
          /\ g.checks <= g.prompts

\* the completion of a task is awaited again, with the cookie c=2 that the
\* refresh returned after c=1 was rejected
C19_Witness ==
    /\ pc = "rt_complete"
    /\ op.inv = 2 /\ op.auth = 1
    /\ op.cred1 = Cred1
    /\ op.refreshed = Cred2
    /\ rt.cookie = Cred2
    /\ cfg.accounts[ai].cookie = Cred2

(* C19 as stated: refreshCookieForAccount never sends to the identity      *)
(* check the cookie that was rejected.                                     *)
C19_RefreshNeverSendsRejected ==
    Refreshing => g.cookie # RejectedCookie

\* the stored cookie of the account was rejected by the first identity check
\* of the ensure call f
StoredRejected(f) == f.fn = "ensure" /\ f.start # Empty /\ f.check1 = "auth"

(* C20 (as amended): when the identity check of the stored cookie ends     *)
(* AuthInvalid, ensureValidCookieForAccount clears its local copy of the   *)
(* cookie, so that the operator is prompted before every further check;    *)
(* the account record, in memory and in the file, keeps the rejected       *)
(* cookie until a new one is validated, and still holds it when the call   *)
(* ends in credential exhaustion.                                          *)
C20_EnsureClearsLocalCopyOnly ==
    /\ StoredRejected(g) =>
          /\ g.at = "prompt" => g.cookie = Empty
          /\ g.checks <= g.prompts + 1
          /\ cfg.accounts[g.index].cookie = g.start
          /\ disk.accounts[g.index] = g.start
    /\ (StoredRejected(gres) /\ ~gres.ok) =>
          /\ gres.checks <= gres.prompts + 1
          /\ cfg.accounts[gres.index].cookie = gres.start
          /\ disk.accounts[gres.index] = gres.start

\* the stored cookie c=1 was rejected, three turns were used up, and c=1 is
\* still the cookie of the account
C20_Witness ==
    /\ StoredRejected(gres)
    /\ gres.err = "EXHAUSTED"
    /\ gres.start = Cred1
    /\ cfg.accounts[gres.index].cookie = Cred1

(* C20 as stated: once the stored cookie was rejected and the call ended   *)
(* in credential exhaustion, the account record holds no cookie.           *)
C20_RecordClearedOnRejection ==
    (StoredRejected(gres) /\ gres.err = "EXHAUSTED") =>
        cfg.accounts[gres.index].cookie = Empty

\* the site awaits an invocation of the wrapped operation, or the refresh
\* that follows its AUTH error
InvocationPending(callSite, refreshedSite) ==
    \/ pc = callSite
    \/ pc = refreshedSite
    \/ pc = "guard" /\ g.ret = refreshedSite

(* C21: in the loops around a task completion and a token creation the     *)
(* attempt counter counts the invocations that ended RateLimited and       *)
(* nothing else: while an invocation is awaited it is one more than their  *)
(* number, during the wait after a RateLimited outcome it is their number, *)
(* and an invocation that ended AuthInvalid and was followed by a          *)
(* successful refresh leaves it where it was before that invocation.  No   *)
(* operation has more than RATE_LIMIT_MAX_RETRY = 3 invocations that       *)
(* ended RateLimited.                                                      *)
C21_AttemptCountsRateLimited ==
    /\ Wrapped => op.rl <= RATE_LIMIT_MAX_RETRY
    /\ InvocationPending("rt_complete", "rt_completeRefreshed") =>
          (op.name = "complete" /\ rt.attempt = op.rl + 1
             /\ rt.attempt <= RATE_LIMIT_MAX_RETRY)
    /\ pc = "rt_wait429" => (op.name = "complete" /\ op.rl >= 1 /\ rt.attempt = op.rl)
    /\ InvocationPending("tx_create", "tx_createRefreshed") =>
          (op.name = "create" /\ tx.attempt = op.rl + 1
             /\ tx.attempt <= RATE_LIMIT_MAX_RETRY)
    /\ pc = "tx_wait429" => (op.name = "create" /\ op.rl >= 1 /\ tx.attempt = op.rl)

\* the fourth invocation of a task completion is awaited: two ended
\* RateLimited, one AuthInvalid, and it is the third attempt of the budget
C21_Witness ==
    /\ pc = "rt_complete"
    /\ op.inv = RATE_LIMIT_MAX_RETRY + 1
    /\ op.auth = 1
    /\ op.rl = 2
    /\ rt.attempt = 3

\* this step is the return of a successful refresh to the site refreshedSite
RefreshReturned(refreshedSite) == pc = refreshedSite /\ gres.ok

\* the call awaited at callSite ends AuthInvalid and refreshCookieForAccount
\* is called; when it returns a cookie, the call is made again
RetriedAfterRefresh(callSite, refreshedSite) ==
    /\ (Answer(callSite, "AuthInvalid") /\ ~(callSite = "tx_create" /\ sig.stopRequested)) =>
          (pc' = "guard" /\ g'.fn = "refresh" /\ g'.ret = refreshedSite /\ g'.i = 1)
    /\ RefreshReturned(refreshedSite) => pc' = callSite

(* C22: the retries after AuthInvalid have no limit.  At the task listing, *)
(* a task completion, the identity refresh after a task and a token        *)
(* creation (no stop requested), every AuthInvalid outcome is followed by  *)
(* a call of refreshCookieForAccount, and every refresh that returns is    *)
(* followed by the same call again, however many times this happened       *)
(* before; the attempt counter of the two budgeted loops is the same at    *)
(* each of these invocations.  With AuthInvalid at every invocation and a  *)
(* refresh that always succeeds the loop does not end.                     *)
C22_AuthRetriesUnbounded ==
    [][/\ RetriedAfterRefresh("rt_getTasks", "rt_tasksRefreshed")
       /\ RetriedAfterRefresh("rt_complete", "rt_completeRefreshed")
       /\ RetriedAfterRefresh("rt_me", "rt_meRefreshed")
       /\ RetriedAfterRefresh("tx_create", "tx_createRefreshed")
       /\ RefreshReturned("rt_completeRefreshed") => rt'.attempt = rt.attempt
       /\ RefreshReturned("tx_createRefreshed") => tx'.attempt = tx.attempt
      ]_vars

\* a token creation is invoked for the fourth time, after three invocations
\* that all ended AuthInvalid: more invocations than the budget has attempts
C22_Witness ==
    /\ pc = "tx_create"
    /\ op.name = "create"
    /\ op.inv = RATE_LIMIT_MAX_RETRY + 1
    /\ op.rl = 0
    /\ op.auth = ManyAuth
    /\ tx.attempt = 1

\* the for loop of the pending tasks goes on after task rt.i: the delay
\* before task rt.i + 1, or the return of runTasksForAccount after the last
MovesOn ==
    IF rt.i < Len(rt.pending)
    THEN pc' = "rt_delay" /\ rt'.i = rt.i + 1 /\ rt'.pending = rt.pending
    ELSE pc' = "main_next" /\ run'.ended = "returned"

\* the error of a refresh leaves runTasksForAccount: task rt.i and the tasks
\* after it are not processed
RunAborted ==
    /\ pc' = "main_next"
    /\ run'.ended = "threw"
    /\ run'.processed = run.processed
    /\ Len(run.processed) < Len(rt.pending)

(* C23 (as amended): for every pending task k, when the completion of      *)
(* task k returns (success or success=false), ends with a Failure (it is   *)
(* not invoked again for that outcome) or uses up its rate-limit budget,   *)
(* the runner performs the identity refresh for task k; when the identity  *)
(* refresh returns or ends RateLimited or with a Failure, the runner moves *)
(* on to task k+1.  An AuthInvalid outcome of either calls                 *)
(* refreshCookieForAccount: when it returns the call is made again, when   *)
(* it fails its error leaves runTasksForAccount, and neither the identity  *)
(* refresh for task k nor any later task is performed for the account.     *)
C23_TaskEndsOrRunAborts ==
    [][/\ \A v \in {"Ok", "Failure"} :
             Answer("rt_complete", v) => (pc' = "rt_me" /\ rt'.i = rt.i)
       /\ (pc = "rt_wait429" /\ pc' # pc) =>
             (pc' = IF rt.attempt < RATE_LIMIT_MAX_RETRY THEN "rt_complete" ELSE "rt_me")
       /\ \A v \in {"Ok", "Failure", "RateLimited"} : Answer("rt_me", v) => MovesOn
       /\ RefreshReturned("rt_completeRefreshed") => (pc' = "rt_complete" /\ rt'.i = rt.i)
       /\ RefreshReturned("rt_meRefreshed") => (pc' = "rt_me" /\ rt'.i = rt.i)
       /\ (pc \in {"rt_completeRefreshed", "rt_meRefreshed"} /\ ~gres.ok) => RunAborted
      ]_vars

\* the completion of the second pending task ended with a Failure at its
\* first invocation, and the identity refresh for that task is awaited
C23_Witness ==
    /\ pc = "rt_me"
    /\ rt.i = 2
    /\ Len(run.processed) = 1
    /\ op.name = "complete"
    /\ op.inv = 1
    /\ op.result = "Failure"
    /\ seen.net = [at |-> "rt_complete", v |-> "Failure"]

(* C23 as stated: however the completion of task k and the identity        *)
(* refresh for task k end, an auth failure included, the run of the        *)
(* account goes on with task k+1: it is not ended by an error.             *)
C23_AuthFailureNeverEndsRun ==
    [][(pc \in {"rt_completeRefreshed", "rt_meRefreshed"}) => (run'.ended # "threw")]_vars

\* the places of the listing whose completed field is false
MarkedNotCompleted == {k \in DOMAIN rt.tasks : rt.tasks[k] = "false"}

\* q lists places of the listing, each once, in the order of the listing
InListingOrder(q) == \A j \in 1..(Len(q) - 1) : q[j] < q[j + 1]

(* C24 (as amended): runTasksForAccount sends to completion only tasks of  *)
(* the listing whose completed field is exactly false, never a task with   *)
(* completed true or without the field; the first completion calls are     *)
(* made in the order of the listing and skip no task marked not completed; *)
(* when runTasksForAccount returns, every such task was sent at least      *)
(* once.  (A run ended by the error of a refresh has sent the tasks up to  *)
(* the one it failed at.)                                                  *)
C24_PendingSentInOrder ==
    mode = "TASKS" =>
        /\ \A j \in DOMAIN run.sent : run.sent[j] \in MarkedNotCompleted
        /\ InListingOrder(run.sent)
        /\ \A k \in MarkedNotCompleted :
              (\E j \in DOMAIN run.sent : run.sent[j] > k) =>
                 (\E j \in DOMAIN run.sent : run.sent[j] = k)
        /\ pc \in {"rt_complete", "rt_wait429", "rt_completeRefreshed"} =>
              (run.sent # <<>> /\ rt.pending[rt.i] = run.sent[Len(run.sent)])
        /\ run.ended = "returned" =>
              \A k \in MarkedNotCompleted : \E j \in DOMAIN run.sent : run.sent[j] = k

\* a listing of three tasks, the second without the completed field: the
\* first and the third were sent, in that order, and the run returned
C24_Witness ==
    /\ mode = "TASKS"
    /\ rt.tasks = <<"false", Undefined, "false">>
    /\ run.sent = <<1, 3>>
    /\ run.ended = "returned"

(* C24 as stated: for each task of the listing whose completed field is    *)
(* false the completion call is invoked at least once in the run.          *)
C24_EveryPendingTaskSent ==
    (mode = "TASKS" /\ run.ended # "") =>
        \A k \in MarkedNotCompleted : \E j \in DOMAIN run.sent : run.sent[j] = k

\* ceil(n / 2)
HalfUp(n) == (n + 1) \div 2

(* C25: in runTradeXAllAccountsForever the cycle counter starts at 1 and   *)
(* goes up by exactly 1 per iteration, and only while no stop is           *)
(* requested; pairNumber is ceil(cycle / 2) at every moment, so the odd    *)
(* cycles are the first and the even cycles the second of their pair; and  *)
(* the delay started at the end of a cycle that was not cancelled is       *)
(* sleepRandom with the state, over the TRADEX_BETWEEN_TOKENS range after  *)
(* an odd cycle and over the TRADEX_AFTER_PAIR range after an even one.    *)
C25_PairCadence ==
    [][/\ (tx'.cycle # tx.cycle /\ pc' # "exited") =>
             /\ tx'.cycle = tx.cycle + 1
             /\ ~sig.stopRequested
             /\ tx'.pairNumber = IF tx'.cycle % 2 = 1 THEN tx.pairNumber + 1
                                 ELSE tx.pairNumber
       /\ (mode' = "TRADEX" /\ pc' # "exited") =>
             (tx'.cycle >= 1 /\ tx'.pairNumber = HalfUp(tx'.cycle))
       /\ (pc # "tx_sleep" /\ pc' = "tx_sleep") =>
             /\ ~sig.stopRequested
             /\ tx'.cycle = tx.cycle
             /\ sl'.withState
             /\ sl'.remaining = sl'.ms
             /\ IF tx.cycle % 2 = 1
                THEN /\ sl'.ms >= TRADEX_BETWEEN_TOKENS_MIN_MS
                     /\ sl'.ms <= TRADEX_BETWEEN_TOKENS_MAX_MS
                ELSE /\ sl'.ms >= TRADEX_AFTER_PAIR_MIN_MS
                     /\ sl'.ms <= TRADEX_AFTER_PAIR_MAX_MS
      ]_vars

\* the third cycle ended without a stop: it is the first of pair 2, after
\* the long delay that followed cycle 2, and the short delay is awaited
C25_Witness ==
    /\ pc = "tx_sleep"
    /\ tx.cycle = 3
    /\ tx.pairNumber = 2
    /\ sl.withState
    /\ sl.ms = TRADEX_BETWEEN_TOKENS_MIN_MS
    /\ ~sig.stopRequested

\* the sites of showBalancesForAll at which the program goes on by itself
BalanceSites == {"bal_ensured", "bal_fetch", "bal_refreshed"}

IterationBegins(ret) == pc # "guard" /\ pc' = "guard" /\ g'.fn = "ensure" /\ g'.ret = ret

(* C27: once state.stopRequested is set in the token-pair mode, no step    *)
(* begins an account iteration of the token-creation loop or of the        *)
(* balance report, none starts the delay of the cycle, the cycle counter   *)
(* is not incremented again, and a delay that is running ends with the     *)
(* loop being left.                                                        *)
C27_NothingBeginsAfterStop ==
    [][(mode = "TRADEX" /\ sig.stopRequested) =>
          /\ ~IterationBegins("tx_ensured")
          /\ ~IterationBegins("bal_ensured")
          /\ pc' = "tx_sleep" => pc = "tx_sleep"
          /\ tx'.cycle = tx.cycle \/ pc' = "exited"
          /\ (pc = "tx_sleep" /\ pc' # pc) => pc' \in {"done", "exited"}
          /\ (pc = "tx_created") => pc' = "done"
      ]_vars

\* the stop was requested while the balance of the first of two accounts was
\* fetched: the report ended there and the loop was left
C27_Witness ==
    /\ mode = "TRADEX"
    /\ pc = "done"
    /\ sig.stopRequested
    /\ Len(cfg.accounts) = 2
    /\ ai = 1
    /\ seen.net.at = "bal_fetch"

(* C28 as stated: in the token-pair mode, once state.stopRequested is set  *)
(* only the call in flight completes: no step issues a token-creation      *)
(* request (createTradeXToken) after the flag was set.                     *)
C28_NoCreateAfterStop ==
    [][(mode = "TRADEX" /\ sig.stopRequested /\ pc # "tx_create") =>
          (pc' # "tx_create")]_vars

\* the price of the item that was selected
SelectedPrice == Num(LOOTBOX_PRICE[lb.lootboxId])

(* C29: in the lootbox loop every open call is reached from a balance      *)
(* fetch of the same iteration that returned without error, and whose      *)
(* balance, as parseFloat read it, is not below the price of the selected  *)
(* item; a fetched balance that is below the price (a missing one is 0)    *)
(* ends the loop of the account with no open call.                         *)
C29_OpenFollowsBalanceNotBelowPrice ==
    [][/\ (pc' = "lb_open" /\ pc # "lb_open") =>
              /\ Answer("lb_balance", "Ok")
              /\ ~LessThan(lb'.bal, SelectedPrice)
       /\ (Answer("lb_balance", "Ok") /\ LessThan(lb'.bal, SelectedPrice)) =>
              /\ pc' \in {"lb_between", "done"}
              /\ lb'.opened = lb.opened
      ]_vars

\* in repeat mode a second silver box is about to be opened, with the
\* balance of 100 fetched again after the first
C29_Witness ==
    /\ pc = "lb_open"
    /\ lb.isRepeat
    /\ lb.opened = 1
    /\ lb.lootboxId = 2
    /\ lb.bal = Num(100)
    /\ seen.net = [at |-> "lb_balance", v |-> "Ok"]

(* C29 as stated: whenever openLootbox is called, the balance fetched in   *)
(* the same iteration is a number that is at least the price of the        *)
(* selected item.                                                          *)
C29_OpenOnlyWithBalanceAtLeastPrice ==
    pc = "lb_open" => (~lb.bal.nan /\ lb.bal.n >= SelectedPrice.n)

(* C30 as stated: the opened count grows by one with each open call that   *)
(* returned without error and with no other answer, whatever prize and     *)
(* jackpot flag the answer carries; in mode "once" the account's loop is   *)
(* left after that open, with a count of at most 1, and in mode "repeat"   *)
(* the open is followed by the delay between opens, then by the next       *)
(* balance check.                                                          *)
C30_OpenCountedThenOnceOrRepeat ==
    [][/\ Answer("lb_open", "Ok") =>
              /\ lb'.opened = lb.opened + 1
              /\ ~lb.isRepeat => (pc' \in {"lb_between", "done"} /\ lb'.opened = 1)
              /\ lb.isRepeat => pc' = "lb_delay"
       /\ (pc = "lb_open" /\ ~Answer("lb_open", "Ok")) => lb'.opened = lb.opened
       /\ (pc = "lb_delay" /\ pc' # pc) => pc' \in {"lb_balance", "exited"}
      ]_vars

(* C31 as stated: in runLootboxForAccount the open calls of one open       *)
(* action that end RateLimited are bounded by the retry budget             *)
(* RATE_LIMIT_MAX_RETRY; after that many the runner gives the item up.     *)
C31_OpenRetriesWithinBudget ==
    lb.limited <= RATE_LIMIT_MAX_RETRY

\* the run of the token-pair mode is over: the loop was left for the line
\* "TradeX stopped gracefully." (done), or the process exited on a third
\* signal
StoppedGracefully == pc \in {"done", "exited"}

(* C32 as stated: in the token-pair mode, every remote call, prompt and    *)
(* timer returning in the end, once the first signal has set               *)
(* state.stopRequested the run leaves the cycle loop and reaches the       *)
(* graceful end, wherever the signal arrived.                              *)
C32_StopLeadsToGracefulEnd ==
    (mode = "TRADEX" /\ sig.stopRequested) ~> StoppedGracefully

\* the cookie that goes with the remote call awaited, the identity check of
\* the guard included
CookieInFlight == IF pc = "guard" THEN g.cookie ELSE SentCookie

\* a remote call is awaited
CallInFlight == pc \in RunnerCallSites \/ (pc = "guard" /\ g.at = "getMe")

\* the operator's answer to the prompt of the guard arrives
PromptAnswered == pc = "guard" /\ g.at = "prompt" /\ sig' = sig /\ pc' # "exited"

(* C33: every remote call (identity check, task listing, task completion,  *)
(* token creation, balance fetch, lootbox open) is awaited with a cookie   *)
(* that is not empty, nor blank.  In the guard, an answer to the prompt    *)
(* either is not empty and goes to the identity check in the same turn,    *)
(* or is empty and uses the turn up: i grows by one and no identity check  *)
(* is sent for it; after the last turn the call fails.                     *)
C33_NoCallWithEmptyCookie ==
    [][/\ CallInFlight' => trim(CookieInFlight') # Empty
       /\ PromptAnswered =>
              \/ /\ pc' = "guard" /\ g'.at = "getMe"
                 /\ g'.i = g.i /\ g'.checks = g.checks + 1
                 /\ g'.ans # Empty /\ g'.cookie = g'.ans
              \/ /\ pc' = "guard" /\ g'.at = "prompt"
                 /\ g'.i = g.i + 1 /\ g'.checks = g.checks
                 /\ g'.ans = Empty
              \/ /\ pc' = g.ret /\ g.i = AUTH_MAX_RETRY
                 /\ ~gres'.ok /\ gres'.checks = g.checks
      ]_vars

\* ensure found no cookie stored, the operator answered with nothing the
\* first time and with c=1 the second: the identity check goes out in turn 2
C33_Witness ==
    /\ pc = "guard" /\ g.at = "getMe"
    /\ g.fn = "ensure"
    /\ g.start = Empty
    /\ g.i = 2
    /\ g.prompts = 2
    /\ g.checks = 1
    /\ g.cookie = Cred1

\* the stored credentials of the accounts other than i are left as they are
OthersUnchanged(i) ==
    /\ Len(cfg'.accounts) = Len(cfg.accounts)
    /\ \A j \in DOMAIN cfg.accounts \ {i} :
          /\ cfg'.accounts[j] = cfg.accounts[j]
          /\ disk'.accounts[j] = disk.accounts[j]

\* the validation of account ai by createOneTokenForAccount just failed
ValidationFailed == pc = "tx_ensured" /\ ~gres.ok

(* C34: in a cycle of the token-pair mode createTradeXToken is called for  *)
(* account i only after ensureValidCookieForAccount returned for account i *)
(* in the same call of createOneTokenForAccount (first by that return,     *)
(* again by the retries of the same operation).  When the validation       *)
(* fails, for whatever reason, no request is made for account i: the call  *)
(* returns, the stored credentials are what they were, those of the other  *)
(* accounts untouched all through the validation, and the for loop takes   *)
(* its next turn: account i + 1, or its end after the last account or on   *)
(* a stop request.                                                         *)
C34_CreateOnlyAfterValidation ==
    [][/\ (pc' = "tx_create" /\ pc # "tx_create") =>
              \/ /\ pc = "tx_ensured" /\ gres.ok
                 /\ gres.fn = "ensure" /\ gres.index = ai /\ ai' = ai
                 /\ tx'.cookie = gres.cookie
              \/ /\ pc \in {"tx_wait429", "tx_createRefreshed"}
                 /\ op.name = "create" /\ ai' = ai
       /\ (pc = "guard" /\ g.ret = "tx_ensured" /\ pc' # "exited") =>
              /\ g.index = ai
              /\ OthersUnchanged(ai)
       /\ ValidationFailed =>
              /\ pc' = "tx_created"
              /\ op' = NoOp /\ op = NoOp
              /\ cfg' = cfg /\ disk' = disk
              /\ cfg.accounts[ai].cookie = gres.start
       /\ (pc = "tx_created" /\ op = NoOp) =>
              IF sig.stopRequested THEN pc' = "done"
              ELSE IF ai < Len(cfg.accounts)
              THEN /\ pc' = "guard" /\ ai' = ai + 1
                   /\ g'.fn = "ensure" /\ g'.index = ai + 1 /\ g'.ret = "tx_ensured"
              ELSE /\ pc' = "guard" /\ g'.ret = "bal_ensured"
      ]_vars

\* the identity check of account 1 was rate limited, its validation failed,
\* and the loop is at the validation of account 2 in the same cycle
C34_Witness ==
    /\ mode = "TRADEX"
    /\ pc = "guard" /\ g.ret = "tx_ensured"
    /\ g.index = 2 /\ ai = 2
    /\ g.at = "getMe" /\ g.checks = 1 /\ g.prompts = 0
    /\ tx.cycle = 1
    /\ op = NoOp
    /\ seen.net = [at |-> "guard", v |-> "RateLimited"]

====
